---------------------------- MODULE Spec2Model ----------------------------
(***************************************************************************)
(* Mobility Gab: ride requests, trips with dual confirmation, and the      *)
(* overdue-subscription sweep, modelled from the Django sources.           *)
(*                                                                         *)
(* The database is the shared state (one variable per table).  A request   *)
(* handler is a process slot: it loads a row into a local copy, works on   *)
(* the copy and writes it back with save(); every database statement is    *)
(* one step, because the project runs Django in autocommit mode (no        *)
(* ATOMIC_REQUESTS, no transaction.atomic, no select_for_update).          *)
(* save() without update_fields writes every column of the local copy;     *)
(* save(update_fields=...) writes the named columns of the local copy.     *)
(*                                                                         *)
(* Thirteen specifications share the variables:                            *)
(*   SpecRide    - creation, acceptance, decline, cancellation of requests *)
(*   SpecAccept  - the accept calls on one pending request                 *)
(*   SpecTrip    - the life of one trip (start, updates, confirmation)     *)
(*   SpecStart   - repeated starts of one trip, with its confirmations     *)
(*   SpecConfirm - the confirmations of one trip in progress               *)
(*   SpecNotifyFault - acceptance and trip calls, the notifier raising     *)
(*   SpecBilling - the overdue sweep and payment events                    *)
(*   SpecSweepFault - the same, with sweeps in which a statement raises    *)
(*   SpecLatePayment - the billing events on a subscription long past due  *)
(*   SpecSearch  - the candidate searches over fleets of chauffeurs        *)
(*   SpecCreate  - one creation call, over the posted texts and times      *)
(*   SpecCheckpoint - checkpoint calls on one trip                         *)
(*   SpecGeo     - calls of the distance and arrival-time functions        *)
(***************************************************************************)
EXTENDS Integers, Sequences, FiniteSets, TLC

VARIABLES
    req,        \* table RideRequest: id -> row
    trips,      \* table Trip: id -> row
    avail,      \* ChauffeurProfile.is_available, per chauffeur
    proc,       \* handler slots: position, local copies, result, emitted rows
    now,        \* the clock read by timezone.now()
    subs,       \* table Subscription: id -> row
    acct,       \* User suspension fields, per parent
    today,      \* the date read by the sweep
    billing,    \* what the last billing operation did and returned
    fleet,      \* the chauffeur profiles a candidate search reads
    search,     \* the last candidate search: its arguments and what it returned
    fcall       \* the last form or function call: its arguments and what it returned

vars == <<req, trips, avail, proc, now, subs, acct, today, billing, fleet, search, fcall>>

----------------------------------------------------------------------------
(* Bounds of the model *)

MaxReqs == 1        \* ride requests that can be created
MaxTrips == 2       \* trip rows that can be created
NumProcs == 2       \* handlers that can be in flight together
MaxClock == 2       \* values the clock takes
MaxDay == 8         \* days the billing calendar runs
NumSubs == 2        \* subscriptions
NumDrivers == 3     \* chauffeur profiles a candidate search reads
MaxLocLen == 2      \* characters of a location text
MaxDistance == 30   \* distances of an arrival estimate, in tenths of a km

(* Program constants *)

DefaultMaxDistanceKm == 10   \* RideRequest.max_distance_km default
DefaultMinRating == 30       \* RideRequest.min_rating default 3.0, in tenths
GraceDays == 5               \* timedelta(days=5) of the sweep
ExtendDays == 30             \* extend_next_due_date(days=30)
CandidateLimit == 5          \* at most 5 chauffeurs are told of a request
AverageSpeedKmh == 30        \* get_estimated_arrival_time average_speed_kmh
MinEtaMinutes == 2           \* get_estimated_arrival_time: max(2, minutes)
MinLeadMinutes == 10         \* RideRequestForm: timedelta(minutes=10)
MaxLeadMinutes == 10080      \* RideRequestForm: timedelta(days=7), in minutes
EarthRadiusKm == 6371        \* calculate_distance: R = 6371.0

----------------------------------------------------------------------------
(* Users *)

Chauffeurs == {"c1", "c2"}
Parents == {"p1", "p2"}
Users == Chauffeurs \cup Parents
NoUser == "none"

ChauffeurOrder == <<"c1", "c2">>

\* ChauffeurProfile.reliability_score, in tenths of a point
Score(c) == IF c = "c1" THEN 45 ELSE 40

\* ChauffeurProfile.current_latitude/longitude is known
HasPosition(c) == c \in {"c1", "c2"}

\* calculate_distance(pickup, chauffeur position), in whole km
DistanceKm(c) == IF c = "c1" THEN 2 ELSE 50

Procs == 1..NumProcs
ReqIds == 1..MaxReqs
TripIds == 1..MaxTrips

----------------------------------------------------------------------------
(* Rows *)

NoReq == [exists |-> FALSE, parent |-> NoUser, chauffeur |-> NoUser,
          status |-> "none", trip |-> 0, coords |-> FALSE]

NoTrip == [exists |-> FALSE, chauffeur |-> NoUser, parent |-> NoUser,
           status |-> "none", started_at |-> 0, completed_at |-> 0,
           cconf |-> 0, pconf |-> 0, carch |-> FALSE, parch |-> FALSE]

\* One Subscription row; haspay says that a Payment row refers to it
NoSub == [parent |-> NoUser, status |-> "none", due |-> 0, haspay |-> FALSE]

\* A chauffeur profile as the candidate searches read it: is_available, the
\* user's is_suspended, reliability_score in tenths, whether the position is
\* known and, when it is, calculate_distance to the pickup in whole km
NoProfile == [avail |-> FALSE, susp |-> FALSE, score |-> 0, pos |-> FALSE, dist |-> 0]

\* No candidate search has run
NoSearch == [op |-> "none", coords |-> FALSE, priority |-> "none", suggested |-> 0,
             result |-> <<>>, raised |-> FALSE]

\* No form or function call has run
NoCall == [op |-> "none", args |-> <<>>, result |-> "none"]

\* No billing operation has run
NoBilling == [op |-> "none", sub |-> 0, dry |-> FALSE, overdue_ids |-> {},
              suspended_ids |-> {}, out |-> <<>>, prev |-> "none"]

\* One emitted row: "log" is a NotificationLog row the handler creates itself,
\* "notify" a notification_service.send_notification call (which logs and
\* pushes), "checkpoint" a Checkpoint and "update" a TripUpdate
Emit(kind, to, type) == [k |-> kind, to |-> to, type |-> type]

IdleProc == [pc |-> "idle", op |-> "none", user |-> NoUser, rid |-> 0, tid |-> 0,
             lreq |-> NoReq, ltrip |-> NoTrip, out |-> <<>>, res |-> "none"]

\* The handler of slot p returns: its result and the rows it emitted last
Return(p, result, emitted) ==
    [proc[p] EXCEPT !.pc = "done", !.res = result, !.out = proc[p].out \o emitted]

\* The first free primary key of a table
NextId(table, ids) ==
    IF \E i \in ids : ~table[i].exists
    THEN CHOOSE i \in ids : ~table[i].exists /\ \A j \in ids : j < i => table[j].exists
    ELSE 0

\* The members of a set of chauffeurs in the order of ChauffeurOrder
InOrder(S) == SelectSeq(ChauffeurOrder, LAMBDA c : c \in S)


----------------------------------------------------------------------------
(* Chauffeur search *)

\* subscriptions/utils.py find_available_chauffeurs without coordinates:
\* the available chauffeurs, best reliability score first
ZoneAvailable == {c \in Chauffeurs : avail[c]}

FirstByScore(S) == CHOOSE c \in S : \A d \in S : Score(c) >= Score(d)

\* core/utils.py find_available_chauffeurs: available, score at or above the
\* minimum and, with pickup coordinates, a known position within the radius
CoreAvailable(coords, maxKm, minScore) ==
    {c \in Chauffeurs :
        /\ avail[c]
        /\ Score(c) >= minScore
        /\ coords => (HasPosition(c) /\ DistanceKm(c) <= maxKm)}

\* AdvancedRideRequestCreateView._find_eligible_chauffeurs
FindEligible(coords, maxKm, minScore, suggested) ==
    IF suggested # NoUser /\ avail[suggested]
    THEN {suggested} \cup (IF coords THEN CoreAvailable(TRUE, maxKm, minScore) ELSE {})
    ELSE CoreAvailable(coords, maxKm, minScore)

\* The precondition of accept in the design: the chauffeur is available, rated
\* at or above the request's minimum and, when the request has pickup
\* coordinates, within its maximum distance (the filter of core/utils.py with
\* the request's own criteria, which are always the column defaults)
Eligible(c, row) == c \in CoreAvailable(row.coords, DefaultMaxDistanceKm, DefaultMinRating)

----------------------------------------------------------------------------
(* Creation of ride requests *)

\* ParentRideRequestCreateView.post: the request is addressed to the best
\* available chauffeur and inserted pending with that chauffeur set
CreateSimple(p, u) ==
    /\ proc[p].pc = "idle"
    /\ NextId(req, ReqIds) # 0
    /\ LET started == [proc[p] EXCEPT !.op = "create_simple", !.user = u] IN
       IF u \notin Parents
       THEN /\ proc' = [proc EXCEPT ![p] = [started EXCEPT !.pc = "done", !.res = "denied"]]
            /\ UNCHANGED req
       ELSE IF ZoneAvailable = {}
       THEN /\ proc' = [proc EXCEPT ![p] = [started EXCEPT !.pc = "done", !.res = "no_chauffeur"]]
            /\ UNCHANGED req
       ELSE LET c == FirstByScore(ZoneAvailable)
                id == NextId(req, ReqIds) IN
            /\ req' = [req EXCEPT ![id] = [exists |-> TRUE, parent |-> u, chauffeur |-> c,
                                           status |-> "pending", trip |-> 0, coords |-> FALSE]]
            /\ proc' = [proc EXCEPT ![p] = [started EXCEPT !.pc = "done", !.res = "ok",
                            !.rid = id, !.out = <<Emit("log", c, "trip_update")>>]]
    /\ UNCHANGED <<trips, avail, now, subs, acct, today, billing, fleet, search, fcall>>

\* AdvancedRideRequestCreateView.post: the request is inserted pending with no
\* chauffeur when at least one chauffeur is eligible; the eligible ones are told
CreateAdvanced(p, u, coords, suggested) ==
    /\ proc[p].pc = "idle"
    /\ NextId(req, ReqIds) # 0
    /\ LET started == [proc[p] EXCEPT !.op = "create_advanced", !.user = u]
           eligible == FindEligible(coords, DefaultMaxDistanceKm, DefaultMinRating, suggested) IN
       IF u \notin Parents
       THEN /\ proc' = [proc EXCEPT ![p] = [started EXCEPT !.pc = "done", !.res = "denied"]]
            /\ UNCHANGED req
       ELSE IF eligible = {}
       THEN /\ proc' = [proc EXCEPT ![p] = [started EXCEPT !.pc = "done", !.res = "no_chauffeur"]]
            /\ UNCHANGED req
       ELSE LET id == NextId(req, ReqIds)
                told == InOrder(eligible) IN
            /\ req' = [req EXCEPT ![id] = [exists |-> TRUE, parent |-> u, chauffeur |-> NoUser,
                                           status |-> "pending", trip |-> 0, coords |-> coords]]
            /\ proc' = [proc EXCEPT ![p] = [started EXCEPT !.pc = "done", !.res = "ok",
                            !.rid = id,
                            !.out = [i \in 1..Len(told) |-> Emit("notify", told[i], "trip_request")]]]
    /\ UNCHANGED <<trips, avail, now, subs, acct, today, billing, fleet, search, fcall>>

----------------------------------------------------------------------------
(* RideRequestForm and RideRequestSerializer: what a creation call validates *)

\* A location text is a sequence of characters
Locations == UNION {[1..n -> {"a", "A", "b", " "}] : n \in 0..MaxLocLen}

\* requested_pickup_time - timezone.now(), in minutes
Leads == {0, MinLeadMinutes - 1, MinLeadMinutes, MinLeadMinutes + 1,
          MaxLeadMinutes, MaxLeadMinutes + 1}

\* str.lower()
Lower(s) == [i \in 1..Len(s) |-> IF s[i] = "A" THEN "a" ELSE s[i]]

\* str.strip(), which is also what forms.CharField (strip=True) and the
\* serializer's CharField (trim_whitespace=True) do to the posted text
RECURSIVE Strip(_)
Strip(s) ==
    IF s # <<>> /\ Head(s) = " " THEN Strip(Tail(s))
    ELSE IF s # <<>> /\ s[Len(s)] = " " THEN Strip(SubSeq(s, 1, Len(s) - 1))
    ELSE s

\* form.is_valid(): the two required texts are not blank once stripped;
\* clean_requested_pickup_time refuses a time at or before now + 10 minutes
\* (<=) and one later than now + 7 days (>); clean() refuses two cleaned texts
\* that are equal once lowered and stripped
FormIsValid(pickup, dropoff, lead) ==
    /\ Strip(pickup) # <<>>
    /\ Strip(dropoff) # <<>>
    /\ ~(lead <= MinLeadMinutes) /\ ~(lead > MaxLeadMinutes)
    /\ Strip(Lower(Strip(pickup))) # Strip(Lower(Strip(dropoff)))

\* RideRequestSerializer.is_valid(): the model's fields, no validator of its
\* own; a CharField trims and refuses a blank text, a DateTimeField takes any
SerializerIsValid(pickup, dropoff, lead) == Strip(pickup) # <<>> /\ Strip(dropoff) # <<>>

\* The slots a creation call can take: no handler is in flight and the
\* table has a free primary key
FreeSlots == IF (\A q \in Procs : proc[q].pc = "idle") /\ NextId(req, ReqIds) # 0
             THEN Procs ELSE {}

\* What a creation call leaves behind: the slot, the table, the call
Posted(p, op, u, pickup, dropoff, lead, result, row, emitted) ==
    /\ proc' = [proc EXCEPT ![p] = [IdleProc EXCEPT !.pc = "done", !.op = op, !.user = u,
                    !.res = result, !.out = emitted,
                    !.rid = IF row.exists THEN NextId(req, ReqIds) ELSE 0]]
    /\ req' = IF row.exists THEN [req EXCEPT ![NextId(req, ReqIds)] = row] ELSE req
    /\ fcall' = [op |-> op, args |-> <<u, pickup, dropoff, lead>>, result |-> result]
    /\ UNCHANGED <<trips, avail, now, subs, acct, today, billing, fleet, search>>

\* ParentRideRequestCreateView.dispatch and post, from the posted form
PostSimple(p, u, pickup, dropoff, lead) ==
    /\ p \in FreeSlots
    /\ IF u \notin Parents
       THEN Posted(p, "post_simple", u, pickup, dropoff, lead, "denied", NoReq, <<>>)
       ELSE IF ~FormIsValid(pickup, dropoff, lead)
       THEN Posted(p, "post_simple", u, pickup, dropoff, lead, "invalid", NoReq, <<>>)
       ELSE IF ZoneAvailable = {}
       THEN Posted(p, "post_simple", u, pickup, dropoff, lead, "no_chauffeur", NoReq, <<>>)
       ELSE LET c == FirstByScore(ZoneAvailable) IN
            Posted(p, "post_simple", u, pickup, dropoff, lead, "created",
                   [exists |-> TRUE, parent |-> u, chauffeur |-> c,
                    status |-> "pending", trip |-> 0, coords |-> FALSE],
                   <<Emit("log", c, "trip_update")>>)

\* AdvancedRideRequestCreateView.dispatch and post, from the posted form
PostAdvanced(p, u, pickup, dropoff, lead, coords) ==
    /\ p \in FreeSlots
    /\ LET eligible == FindEligible(coords, DefaultMaxDistanceKm, DefaultMinRating, NoUser)
           told == InOrder(eligible) IN
       IF u \notin Parents
       THEN Posted(p, "post_advanced", u, pickup, dropoff, lead, "denied", NoReq, <<>>)
       ELSE IF ~FormIsValid(pickup, dropoff, lead)
       THEN Posted(p, "post_advanced", u, pickup, dropoff, lead, "invalid", NoReq, <<>>)
       ELSE IF eligible = {}
       THEN Posted(p, "post_advanced", u, pickup, dropoff, lead, "no_chauffeur", NoReq, <<>>)
       ELSE Posted(p, "post_advanced", u, pickup, dropoff, lead, "created",
                   [exists |-> TRUE, parent |-> u, chauffeur |-> NoUser,
                    status |-> "pending", trip |-> 0, coords |-> coords],
                   [i \in 1..Len(told) |-> Emit("notify", told[i], "trip_request")])

\* RideRequestViewSet.create: is_valid, then perform_create hands parent to
\* save(), which adds it to validated_data; RideRequestSerializer.create looks
\* the chauffeur up and then passes parent both by name and in validated_data,
\* which raises TypeError before the INSERT
ApiCreate(p, u, chauffeur_id, pickup, dropoff, lead) ==
    /\ p \in FreeSlots
    /\ IF ~SerializerIsValid(pickup, dropoff, lead)
       THEN Posted(p, "api_create", u, pickup, dropoff, lead, "invalid", NoReq, <<>>)
       ELSE IF chauffeur_id \notin Chauffeurs
       THEN Posted(p, "api_create", u, pickup, dropoff, lead, "invalid", NoReq, <<>>)
       ELSE Posted(p, "api_create", u, pickup, dropoff, lead, "raised", NoReq, <<>>)

----------------------------------------------------------------------------
(* accept_ride_request_advanced: any chauffeur accepts a pending request *)

\* get_object_or_404(RideRequest, pk=pk, status='pending'); a miss raises
\* Http404 inside the try block and comes back as the 500 of except Exception
AdvAcceptLoad(p, u, r) ==
    /\ proc[p].pc = "idle"
    /\ LET started == [proc[p] EXCEPT !.op = "accept_advanced", !.user = u, !.rid = r] IN
       IF u \notin Chauffeurs
       THEN proc' = [proc EXCEPT ![p] = [started EXCEPT !.pc = "done", !.res = "http403"]]
       ELSE IF req[r].exists /\ req[r].status = "pending"
       THEN proc' = [proc EXCEPT ![p] = [started EXCEPT !.pc = "adv_save1", !.lreq = req[r]]]
       ELSE proc' = [proc EXCEPT ![p] = [started EXCEPT !.pc = "done", !.res = "http500"]]
    /\ UNCHANGED <<req, trips, avail, now, subs, acct, today, billing, fleet, search, fcall>>

\* The local copy after lines 304-306: chauffeur and status are set
AdvAccepted(row, u) == [row EXCEPT !.chauffeur = u, !.status = "accepted"]

\* ride_request.save() of line 307: every column of the local copy is written
AdvAcceptSave1(p) ==
    /\ proc[p].pc = "adv_save1"
    /\ LET row == AdvAccepted(proc[p].lreq, proc[p].user) IN
       /\ req' = [req EXCEPT ![proc[p].rid] = row]
       /\ proc' = [proc EXCEPT ![p] = [proc[p] EXCEPT !.pc = "adv_trip", !.lreq = row]]
    /\ UNCHANGED <<trips, avail, now, subs, acct, today, billing, fleet, search, fcall>>

\* The Trip row of lines 310-315: in progress, started_at left empty
AdvNewTrip(row, u) ==
    [NoTrip EXCEPT !.exists = TRUE, !.chauffeur = u, !.parent = row.parent,
                   !.status = "in_progress"]

AdvAcceptTrip(p) ==
    /\ proc[p].pc = "adv_trip"
    /\ NextId(trips, TripIds) # 0
    /\ LET t == NextId(trips, TripIds) IN
       /\ trips' = [trips EXCEPT ![t] = AdvNewTrip(proc[p].lreq, proc[p].user)]
       /\ proc' = [proc EXCEPT ![p] = [proc[p] EXCEPT !.pc = "adv_save2", !.tid = t,
                                        !.lreq = [proc[p].lreq EXCEPT !.trip = t]]]
    /\ UNCHANGED <<req, avail, now, subs, acct, today, billing, fleet, search, fcall>>

\* ride_request.save() of line 319, again every column of the local copy
AdvAcceptSave2(p) ==
    /\ proc[p].pc = "adv_save2"
    /\ req' = [req EXCEPT ![proc[p].rid] = proc[p].lreq]
    /\ proc' = [proc EXCEPT ![p] = [proc[p] EXCEPT !.pc = "adv_finish"]]
    /\ UNCHANGED <<trips, avail, now, subs, acct, today, billing, fleet, search, fcall>>

\* _cancel_pending_notifications: the other available chauffeurs are told
OtherAvailable(c) == InOrder({d \in Chauffeurs : avail[d] /\ d # c})

\* Lines 322-357: the first checkpoint, the requester's notification, the other
\* chauffeurs' notifications and the success response
AdvAcceptFinish(p) ==
    /\ proc[p].pc = "adv_finish"
    /\ LET others == OtherAvailable(proc[p].user) IN
       proc' = [proc EXCEPT ![p] = Return(p, "ok",
                   <<Emit("checkpoint", NoUser, "en_route"),
                     Emit("notify", proc[p].lreq.parent, "trip_accepted")>>
                   \o [i \in 1..Len(others) |-> Emit("notify", others[i], "trip_update")])]
    /\ UNCHANGED <<req, trips, avail, now, subs, acct, today, billing, fleet, search, fcall>>

----------------------------------------------------------------------------
(* RideRequest.accept, reached from chauffeur_ride_request_action and from  *)
(* RideRequestViewSet.accept: the addressed chauffeur accepts               *)

\* RideRequestViewSet.get_queryset: a parent sees their own requests, a
\* chauffeur the requests addressed to them
Visible(u, row) ==
    /\ row.exists
    /\ u \in Parents => row.parent = u
    /\ u \in Chauffeurs => row.chauffeur = u

\* The Trip row of RideRequest.accept: in progress, started now
ModelNewTrip(row) ==
    [NoTrip EXCEPT !.exists = TRUE, !.chauffeur = row.chauffeur, !.parent = row.parent,
                   !.status = "in_progress", !.started_at = now]

\* chauffeur_ride_request_action, up to the call of accept() or decline():
\* get_object_or_404(pk, chauffeur=request.user), then the status test
ActionLoad(p, u, r, action) ==
    /\ proc[p].pc = "idle"
    /\ action \in {"accept", "decline"}
    /\ LET started == [proc[p] EXCEPT !.op = "action_" \o action, !.user = u, !.rid = r] IN
       IF ~(req[r].exists /\ req[r].chauffeur = u)
       THEN proc' = [proc EXCEPT ![p] = [started EXCEPT !.pc = "done", !.res = "http404"]]
       ELSE IF req[r].status # "pending"
       THEN proc' = [proc EXCEPT ![p] = [started EXCEPT !.pc = "done", !.res = "redirect_warning"]]
       ELSE proc' = [proc EXCEPT ![p] = [started EXCEPT !.lreq = req[r],
                        !.pc = IF action = "accept" THEN "m_trip" ELSE "m_decline"]]
    /\ UNCHANGED <<req, trips, avail, now, subs, acct, today, billing, fleet, search, fcall>>

\* RideRequest.accept on a copy that is not pending returns the copy's trip
\* and changes nothing; the view logs "Course acceptee" whenever a trip comes back
AcceptNoop(row) == row.status # "pending"

\* RideRequestViewSet.accept, up to the first statement of RideRequest.accept
ApiAcceptLoad(p, u, r) ==
    /\ proc[p].pc = "idle"
    /\ LET started == [proc[p] EXCEPT !.op = "api_accept", !.user = u, !.rid = r] IN
       IF ~Visible(u, req[r])
       THEN proc' = [proc EXCEPT ![p] = [started EXCEPT !.pc = "done", !.res = "http404"]]
       ELSE IF u # req[r].chauffeur
       THEN proc' = [proc EXCEPT ![p] = [started EXCEPT !.pc = "done", !.res = "http403"]]
       ELSE IF AcceptNoop(req[r])
       THEN proc' = [proc EXCEPT ![p] = [started EXCEPT !.pc = "done", !.res = "http200",
                        !.lreq = req[r],
                        !.out = IF req[r].trip # 0
                                THEN <<Emit("log", req[r].parent, "trip_update")>>
                                ELSE <<>>]]
       ELSE proc' = [proc EXCEPT ![p] = [started EXCEPT !.lreq = req[r], !.pc = "m_trip"]]
    /\ UNCHANGED <<req, trips, avail, now, subs, acct, today, billing, fleet, search, fcall>>

\* Trip.objects.create of RideRequest.accept
ModelAcceptTrip(p) ==
    /\ proc[p].pc = "m_trip"
    /\ NextId(trips, TripIds) # 0
    /\ LET t == NextId(trips, TripIds)
           row == ModelNewTrip(proc[p].lreq) IN
       /\ trips' = [trips EXCEPT ![t] = row]
       /\ proc' = [proc EXCEPT ![p] = [proc[p] EXCEPT !.pc = "m_save", !.tid = t, !.ltrip = row]]
    /\ UNCHANGED <<req, avail, now, subs, acct, today, billing, fleet, search, fcall>>

\* save(update_fields=["status", "trip", "responded_at"])
ModelAcceptSave(p) ==
    /\ proc[p].pc = "m_save"
    /\ req' = [req EXCEPT ![proc[p].rid].status = "accepted", ![proc[p].rid].trip = proc[p].tid]
    /\ proc' = [proc EXCEPT ![p] = [proc[p] EXCEPT !.pc = "m_avail",
                   !.lreq = [proc[p].lreq EXCEPT !.status = "accepted", !.trip = proc[p].tid]]]
    /\ UNCHANGED <<trips, avail, now, subs, acct, today, billing, fleet, search, fcall>>

\* chauffeur_profile.is_available = False, saved
ModelAcceptAvail(p) ==
    /\ proc[p].pc = "m_avail"
    /\ avail' = [avail EXCEPT ![proc[p].lreq.chauffeur] = FALSE]
    /\ proc' = [proc EXCEPT ![p] = [proc[p] EXCEPT !.pc = "m_mark"]]
    /\ UNCHANGED <<req, trips, now, subs, acct, today, billing, fleet, search, fcall>>

\* A variant that stamps started_at at every start
MarkInProgressRestamped(row) ==
    [row EXCEPT !.started_at = now,
                !.cconf = 0, !.pconf = 0, !.carch = FALSE, !.parch = FALSE,
                !.status = "in_progress"]

\* Trip.mark_in_progress on a local copy: started_at is kept when set, both
\* confirmations and both archive flags are cleared, status is in_progress
MarkInProgress(row) ==
    [row EXCEPT !.started_at = IF row.started_at = 0 THEN now ELSE row.started_at,
                !.cconf = 0, !.pconf = 0, !.carch = FALSE, !.parch = FALSE,
                !.status = "in_progress"]

\* The columns mark_in_progress saves, taken from the local copy
SaveInProgress(dbrow, local) ==
    [dbrow EXCEPT !.status = local.status, !.started_at = local.started_at,
                  !.cconf = local.cconf, !.pconf = local.pconf,
                  !.carch = local.carch, !.parch = local.parch]

\* trip.mark_in_progress() at the end of RideRequest.accept, then the view's
\* NotificationLog for the requester and its response
ModelAcceptMark(p) ==
    /\ proc[p].pc = "m_mark"
    /\ LET local == MarkInProgress(proc[p].ltrip) IN
       /\ trips' = [trips EXCEPT ![proc[p].tid] = SaveInProgress(trips[proc[p].tid], local)]
       /\ proc' = [proc EXCEPT ![p] =
              [Return(p, IF proc[p].op = "api_accept" THEN "http200" ELSE "redirect_ok",
                      <<Emit("log", proc[p].lreq.parent, "trip_update")>>)
               EXCEPT !.ltrip = local]]
    /\ UNCHANGED <<req, avail, now, subs, acct, today, billing, fleet, search, fcall>>

----------------------------------------------------------------------------
(* Decline *)

\* RideRequest.decline: save(update_fields=["status", "responded_at", "notes"]),
\* then the view's NotificationLog for the requester
ModelDeclineSave(p) ==
    /\ proc[p].pc = "m_decline"
    /\ req' = [req EXCEPT ![proc[p].rid].status = "declined"]
    /\ proc' = [proc EXCEPT ![p] =
           [Return(p, IF proc[p].op = "api_decline" THEN "http200" ELSE "redirect_ok",
                   <<Emit("log", proc[p].lreq.parent, "trip_update")>>)
            EXCEPT !.lreq = [proc[p].lreq EXCEPT !.status = "declined"]]]
    /\ UNCHANGED <<trips, avail, now, subs, acct, today, billing, fleet, search, fcall>>

\* RideRequestViewSet.decline: decline() returns at once on a copy that is
\* not pending, and the view logs "Course refusee" in either case
ApiDeclineLoad(p, u, r) ==
    /\ proc[p].pc = "idle"
    /\ LET started == [proc[p] EXCEPT !.op = "api_decline", !.user = u, !.rid = r] IN
       IF ~Visible(u, req[r])
       THEN proc' = [proc EXCEPT ![p] = [started EXCEPT !.pc = "done", !.res = "http404"]]
       ELSE IF u # req[r].chauffeur
       THEN proc' = [proc EXCEPT ![p] = [started EXCEPT !.pc = "done", !.res = "http403"]]
       ELSE IF req[r].status # "pending"
       THEN proc' = [proc EXCEPT ![p] = [started EXCEPT !.pc = "done", !.res = "http200",
                        !.lreq = req[r],
                        !.out = <<Emit("log", req[r].parent, "trip_update")>>]]
       ELSE proc' = [proc EXCEPT ![p] = [started EXCEPT !.lreq = req[r], !.pc = "m_decline"]]
    /\ UNCHANGED <<req, trips, avail, now, subs, acct, today, billing, fleet, search, fcall>>

\* decline_ride_request_advanced: any chauffeur, the request stays as it is
AdvDecline(p, u, r) ==
    /\ proc[p].pc = "idle"
    /\ LET started == [proc[p] EXCEPT !.op = "decline_advanced", !.user = u, !.rid = r] IN
       IF u \notin Chauffeurs
       THEN proc' = [proc EXCEPT ![p] = [started EXCEPT !.pc = "done", !.res = "http403"]]
       ELSE IF req[r].exists /\ req[r].status = "pending"
       THEN proc' = [proc EXCEPT ![p] = [started EXCEPT !.pc = "done", !.res = "ok",
                        !.lreq = req[r],
                        !.out = <<Emit("notify", req[r].parent, "trip_update")>>]]
       ELSE proc' = [proc EXCEPT ![p] = [started EXCEPT !.pc = "done", !.res = "http500"]]
    /\ UNCHANGED <<req, trips, avail, now, subs, acct, today, billing, fleet, search, fcall>>

----------------------------------------------------------------------------
(* Cancel *)

\* RideRequestViewSet.cancel, up to the call of RideRequest.cancel
ApiCancelLoad(p, u, r) ==
    /\ proc[p].pc = "idle"
    /\ LET started == [proc[p] EXCEPT !.op = "api_cancel", !.user = u, !.rid = r] IN
       IF ~Visible(u, req[r])
       THEN proc' = [proc EXCEPT ![p] = [started EXCEPT !.pc = "done", !.res = "http404"]]
       ELSE IF u # req[r].parent
       THEN proc' = [proc EXCEPT ![p] = [started EXCEPT !.pc = "done", !.res = "http403"]]
       ELSE proc' = [proc EXCEPT ![p] = [started EXCEPT !.lreq = req[r], !.pc = "m_cancel"]]
    /\ UNCHANGED <<req, trips, avail, now, subs, acct, today, billing, fleet, search, fcall>>

\* RideRequest.cancel on the local copy: an accepted or completed copy frees
\* the chauffeur, a pending copy is saved cancelled
\* (update_fields=["status", "responded_at"]).  The view then logs a
\* notification for the request's chauffeur; with no chauffeur that insert
\* fails and the response is an error, after the cancellation was committed.
ModelCancel(p) ==
    /\ proc[p].pc = "m_cancel"
    /\ LET row == proc[p].lreq IN
       /\ avail' = IF row.status \in {"accepted", "completed"} /\ row.chauffeur # NoUser
                   THEN [avail EXCEPT ![row.chauffeur] = TRUE]
                   ELSE avail
       /\ req' = IF row.status = "pending"
                 THEN [req EXCEPT ![proc[p].rid].status = "cancelled"]
                 ELSE req
       /\ proc' = [proc EXCEPT ![p] =
              [(IF row.chauffeur = NoUser
                THEN Return(p, "http500", <<>>)
                ELSE Return(p, "http200", <<Emit("log", row.chauffeur, "trip_update")>>))
               EXCEPT !.lreq.status = IF row.status = "pending" THEN "cancelled" ELSE row.status]]
    /\ UNCHANGED <<trips, now, subs, acct, today, billing, fleet, search, fcall>>

\* cancel_ride_request_api: get_object_or_404(pk, parent=request.user), then
\* the status test on the copy
AdvCancelLoad(p, u, r) ==
    /\ proc[p].pc = "idle"
    /\ LET started == [proc[p] EXCEPT !.op = "cancel_advanced", !.user = u, !.rid = r] IN
       IF ~(req[r].exists /\ req[r].parent = u)
       THEN proc' = [proc EXCEPT ![p] = [started EXCEPT !.pc = "done", !.res = "http500"]]
       ELSE IF req[r].status # "pending"
       THEN proc' = [proc EXCEPT ![p] = [started EXCEPT !.pc = "done", !.res = "refused",
                                                         !.lreq = req[r]]]
       ELSE proc' = [proc EXCEPT ![p] = [started EXCEPT !.lreq = req[r], !.pc = "adv_cancel"]]
    /\ UNCHANGED <<req, trips, avail, now, subs, acct, today, billing, fleet, search, fcall>>

\* ride_request.save() of line 713: every column of the local copy, then the
\* notifications to the available chauffeurs
AdvCancelSave(p) ==
    /\ proc[p].pc = "adv_cancel"
    /\ LET row == [proc[p].lreq EXCEPT !.status = "cancelled"]
           told == InOrder(ZoneAvailable) IN
       /\ req' = [req EXCEPT ![proc[p].rid] = row]
       /\ proc' = [proc EXCEPT ![p] =
              [Return(p, "ok", [i \in 1..Len(told) |-> Emit("notify", told[i], "trip_update")])
               EXCEPT !.lreq = row]]
    /\ UNCHANGED <<trips, avail, now, subs, acct, today, billing, fleet, search, fcall>>

----------------------------------------------------------------------------
(* toggle_chauffeur_availability *)

ToggleAvailability(p, u, b) ==
    /\ proc[p].pc = "idle"
    /\ LET started == [proc[p] EXCEPT !.op = "toggle", !.user = u] IN
       IF u \notin Chauffeurs
       THEN /\ proc' = [proc EXCEPT ![p] = [started EXCEPT !.pc = "done", !.res = "http403"]]
            /\ UNCHANGED avail
       ELSE /\ avail' = [avail EXCEPT ![u] = b]
            /\ proc' = [proc EXCEPT ![p] = [started EXCEPT !.pc = "done", !.res = "ok",
                            !.out = <<Emit("notify", u, "status_update")>>]]
    /\ UNCHANGED <<req, trips, now, subs, acct, today, billing, fleet, search, fcall>>

----------------------------------------------------------------------------
(* Trip lifecycle: courses/views.py over subscriptions.models.Trip *)

\* _notify_trip_user: a NotificationLog row, then the notification service
NotifyTripUser(u, type) == <<Emit("log", u, type), Emit("notify", u, type)>>

\* The values of update_type the driver's client posts ("" is a missing one)
UpdateTypes == {"started", "completed", "pickup", ""}

\* The handler's copy of a trip row: the columns a handler goes on to read
\* or write (the archive flags of a copy are never read again)
Local(row) == [row EXCEPT !.carch = FALSE, !.parch = FALSE]

\* The response of a trip handler; its copy of the row goes with the request
Respond(p, result, emitted) == [Return(p, result, emitted) EXCEPT !.ltrip = NoTrip]

\* get_object_or_404(Trip, pk=trip_id) finds a row
TripFound(t) == t \in TripIds /\ trips[t].exists

\* start_trip up to its read of the trip: 404, 403 and 400, or the local copy
StartTripLoad(p, u, t) ==
    /\ proc[p].pc = "idle"
    /\ proc' = [proc EXCEPT ![p] =
          LET call == [IdleProc EXCEPT !.op = "start_trip", !.user = u, !.tid = t] IN
          IF ~TripFound(t) THEN [call EXCEPT !.pc = "done", !.res = "http404"]
          ELSE IF u # trips[t].chauffeur THEN [call EXCEPT !.pc = "done", !.res = "http403"]
          ELSE IF trips[t].status \notin {"scheduled", "in_progress"}
               THEN [call EXCEPT !.pc = "done", !.res = "http400"]
          ELSE [call EXCEPT !.pc = "st_save", !.ltrip = Local(trips[t])]]
    /\ UNCHANGED <<req, trips, avail, now, subs, acct, today, billing, fleet, search, fcall>>

\* start_trip from trip.mark_in_progress() on: the save, the "started"
\* TripUpdate and the requester's notification
StartTripSave(p) ==
    /\ proc[p].pc = "st_save"
    /\ LET local == MarkInProgress(proc[p].ltrip) IN
       /\ trips' = [trips EXCEPT ![proc[p].tid] = SaveInProgress(trips[proc[p].tid], local)]
       /\ proc' = [proc EXCEPT ![p] =
              Respond(p, "ok", <<Emit("update", NoUser, "started")>>
                               \o NotifyTripUser(local.parent, "trip_update"))]
    /\ UNCHANGED <<req, avail, now, subs, acct, today, billing, fleet, search, fcall>>

\* Trip.mark_completed on a local copy
MarkCompleted(row) == [row EXCEPT !.status = "completed", !.completed_at = now]

\* The columns mark_completed saves, taken from the local copy
SaveCompleted(dbrow, local) ==
    [dbrow EXCEPT !.status = local.status, !.completed_at = local.completed_at,
                  !.cconf = local.cconf, !.pconf = local.pconf]

\* update_trip_status up to the TripUpdate it creates: 404, 403 and 400; an
\* update that is neither "started" nor "completed" only notifies the requester
UpdateStatusLoad(p, u, t, ut) ==
    /\ proc[p].pc = "idle"
    /\ proc' = [proc EXCEPT ![p] =
          LET call == [IdleProc EXCEPT !.op = "update_" \o ut, !.user = u, !.tid = t] IN
          IF ~TripFound(t) THEN [call EXCEPT !.pc = "done", !.res = "http404"]
          ELSE IF u # trips[t].chauffeur THEN [call EXCEPT !.pc = "done", !.res = "http403"]
          ELSE IF ut = "" THEN [call EXCEPT !.pc = "done", !.res = "http400"]
          ELSE IF ut \notin {"started", "completed"}
               THEN [call EXCEPT !.pc = "done", !.res = "ok",
                                 !.out = <<Emit("update", NoUser, ut),
                                           Emit("notify", trips[t].parent, "trip_update")>>]
          ELSE [call EXCEPT !.pc = "up_save", !.ltrip = Local(trips[t]),
                            !.out = <<Emit("update", NoUser, ut)>>]]
    /\ UNCHANGED <<req, trips, avail, now, subs, acct, today, billing, fleet, search, fcall>>

\* update_trip_status from mark_in_progress() or mark_completed() on
UpdateStatusSave(p) ==
    /\ proc[p].pc = "up_save"
    /\ LET local == IF proc[p].op = "update_started"
                    THEN MarkInProgress(proc[p].ltrip)
                    ELSE MarkCompleted(proc[p].ltrip)
           saved == IF proc[p].op = "update_started"
                    THEN SaveInProgress(trips[proc[p].tid], local)
                    ELSE SaveCompleted(trips[proc[p].tid], local) IN
       /\ trips' = [trips EXCEPT ![proc[p].tid] = saved]
       /\ proc' = [proc EXCEPT ![p] =
              Respond(p, "ok", <<Emit("notify", local.parent, "trip_update")>>)]
    /\ UNCHANGED <<req, avail, now, subs, acct, today, billing, fleet, search, fcall>>

\* A variant that tests the chauffeur's confirmation whoever calls
AlreadyConfirmedByChauffeur(row, u) == row.cconf # 0

\* chauffeur_has_confirmed or parent_has_confirmed, by the caller's role
AlreadyConfirmed(row, u) ==
    IF u = row.chauffeur THEN row.cconf # 0 ELSE row.pconf # 0

\* The caller's own confirmation set on the local copy
ConfirmLocal(row, u) ==
    IF u = row.chauffeur THEN [row EXCEPT !.cconf = now] ELSE [row EXCEPT !.pconf = now]

\* confirm_trip_completion up to the timestamp it sets on its copy: 404, 403,
\* 400 when the trip is not in progress, 400 when the caller has confirmed
ConfirmLoad(p, u, t) ==
    /\ proc[p].pc = "idle"
    /\ proc' = [proc EXCEPT ![p] =
          LET call == [IdleProc EXCEPT !.op = "confirm", !.user = u, !.tid = t] IN
          IF ~TripFound(t) THEN [call EXCEPT !.pc = "done", !.res = "http404"]
          ELSE IF u \notin {trips[t].chauffeur, trips[t].parent}
               THEN [call EXCEPT !.pc = "done", !.res = "http403"]
          ELSE IF trips[t].status # "in_progress"
               THEN [call EXCEPT !.pc = "done", !.res = "http400"]
          ELSE IF AlreadyConfirmed(trips[t], u)
               THEN [call EXCEPT !.pc = "done", !.res = "http400_already_confirmed"]
          ELSE [call EXCEPT !.pc = "cf_save", !.ltrip = ConfirmLocal(Local(trips[t]), u)]]
    /\ UNCHANGED <<req, trips, avail, now, subs, acct, today, billing, fleet, search, fcall>>

\* trip.save(update_fields=[both confirmation columns]) from the local copy
ConfirmSave(p) ==
    /\ proc[p].pc = "cf_save"
    /\ trips' = [trips EXCEPT ![proc[p].tid].cconf = proc[p].ltrip.cconf,
                              ![proc[p].tid].pconf = proc[p].ltrip.pconf]
    /\ proc' = [proc EXCEPT ![p].pc = "cf_final"]
    /\ UNCHANGED <<req, avail, now, subs, acct, today, billing, fleet, search, fcall>>

\* _finalize_trip_completion decides on the local copy
JustCompleted(local) ==
    local.cconf # 0 /\ local.pconf # 0 /\ local.status # "completed"

\* confirm_trip_completion from _finalize_trip_completion on: the completion
\* with its TripUpdate and its notices to both parties, then the handler's own
\* TripUpdate and its notice to the counterpart
ConfirmFinalize(p) ==
    /\ proc[p].pc = "cf_final"
    /\ LET l == proc[p].ltrip
           just == JustCompleted(l)
           local == IF just THEN MarkCompleted(l) ELSE l
           counterpart == IF proc[p].user = l.chauffeur THEN l.parent ELSE l.chauffeur
           closing == IF just
                      THEN <<Emit("update", NoUser, "completed")>>
                           \o NotifyTripUser(l.parent, "trip_confirmation")
                           \o NotifyTripUser(l.chauffeur, "trip_confirmation")
                      ELSE <<>> IN
       /\ trips' = IF just
                   THEN [trips EXCEPT ![proc[p].tid] = SaveCompleted(trips[proc[p].tid], local)]
                   ELSE trips
       /\ proc' = [proc EXCEPT ![p] =
              Respond(p, "ok",
                      closing
                      \o <<Emit("update", NoUser,
                                IF just THEN "completed" ELSE "destination_reached")>>
                      \o NotifyTripUser(counterpart, "trip_confirmation"))]
    /\ UNCHANGED <<req, avail, now, subs, acct, today, billing, fleet, search, fcall>>

\* Trip.awaiting_parent_confirmation
AwaitingParentConfirmation(row) ==
    row.cconf # 0 /\ row.pconf = 0 /\ row.status = "in_progress"

\* Trip.awaiting_chauffeur_confirmation
AwaitingChauffeurConfirmation(row) ==
    row.pconf # 0 /\ row.cconf = 0 /\ row.status = "in_progress"

\* Trip.is_archived_for
IsArchivedFor(row, u) ==
    IF u = row.chauffeur THEN row.carch
    ELSE IF u = row.parent THEN row.parch
    ELSE FALSE

\* A variant that archives the trip for both parties
ArchiveForBoth(row, u) == [row EXCEPT !.carch = TRUE, !.parch = TRUE]

\* Trip.archive(user) for a party of the trip: the party's own flag
ArchiveFor(row, u) ==
    IF u = row.chauffeur THEN [row EXCEPT !.carch = TRUE] ELSE [row EXCEPT !.parch = TRUE]

\* archive_trip
ArchiveTrip(p, u, t) ==
    /\ proc[p].pc = "idle"
    /\ LET call == [IdleProc EXCEPT !.op = "archive_trip", !.user = u, !.tid = t,
                                    !.pc = "done"] IN
       IF ~TripFound(t)
       THEN proc' = [proc EXCEPT ![p] = [call EXCEPT !.res = "http404"]] /\ UNCHANGED trips
       ELSE IF u \notin {trips[t].chauffeur, trips[t].parent}
       THEN proc' = [proc EXCEPT ![p] = [call EXCEPT !.res = "http403"]] /\ UNCHANGED trips
       ELSE /\ proc' = [proc EXCEPT ![p] = [call EXCEPT !.res = "ok"]]
            /\ trips' = [trips EXCEPT ![t] = ArchiveFor(trips[t], u)]
    /\ UNCHANGED <<req, avail, now, subs, acct, today, billing, fleet, search, fcall>>

\* delete_trip
DeleteTrip(p, u, t) ==
    /\ proc[p].pc = "idle"
    /\ LET call == [IdleProc EXCEPT !.op = "delete_trip", !.user = u, !.tid = t,
                                    !.pc = "done"] IN
       IF ~TripFound(t)
       THEN proc' = [proc EXCEPT ![p] = [call EXCEPT !.res = "http404"]] /\ UNCHANGED trips
       ELSE IF u \notin {trips[t].chauffeur, trips[t].parent}
       THEN proc' = [proc EXCEPT ![p] = [call EXCEPT !.res = "http403"]] /\ UNCHANGED trips
       ELSE IF trips[t].status \notin {"cancelled", "completed", "archived"}
       THEN proc' = [proc EXCEPT ![p] = [call EXCEPT !.res = "http400"]] /\ UNCHANGED trips
       ELSE /\ proc' = [proc EXCEPT ![p] = [call EXCEPT !.res = "ok"]]
            /\ trips' = [trips EXCEPT ![t] = ArchiveFor(trips[t], u)]
    /\ UNCHANGED <<req, avail, now, subs, acct, today, billing, fleet, search, fcall>>

\* timezone.now() moves on
Tick ==
    /\ now < MaxClock
    /\ now' = now + 1
    /\ UNCHANGED <<req, trips, avail, proc, subs, acct, today, billing, fleet, search, fcall>>

----------------------------------------------------------------------------
(* Billing: subscriptions/tasks.py, signals.py, serializers.py, api_views.py *)

SubIds == 1..NumSubs

\* The kind of the operation a billing record is about
OpKind(b) == IF b.op = "sweep" /\ b.dry THEN "dry_sweep" ELSE b.op

\* The record of an operation: what it returned and the NotificationLog rows
\* it created, after the operation recorded before it
Record(op, s, dry, od, sp, emitted) ==
    [op |-> op, sub |-> s, dry |-> dry, overdue_ids |-> od, suspended_ids |-> sp,
     out |-> emitted, prev |-> OpKind(billing)]

\* The ids of a set of subscriptions in the order the queryset yields them
SubOrder(S) == SelectSeq([i \in SubIds |-> i], LAMBDA s : s \in S)

\* One NotificationLog row of the given type for the parent of each subscription
LogEach(table, S, type) ==
    [i \in 1..Len(SubOrder(S)) |-> Emit("log", table[SubOrder(S)[i]].parent, type)]

\* A variant of the first selection that is not gated on the status
SelectOverdueAnyStatus(table, day) ==
    {s \in SubIds : table[s].status \in {"active", "overdue"} /\ table[s].due < day}

\* Subscription.objects.filter(next_due_date__lt=today, status=ACTIVE)
SelectOverdue(table, day) ==
    {s \in SubIds : table[s].status = "active" /\ table[s].due < day}

\* A variant of the second selection with a grace period two days longer
SelectSuspendedLate(table, day) ==
    {s \in SubIds : table[s].status = "overdue" /\ table[s].due < day - GraceDays - 2}

\* Subscription.objects.filter(status=OVERDUE, next_due_date__lt=grace_period)
SelectSuspended(table, day) ==
    {s \in SubIds : table[s].status = "overdue" /\ table[s].due < day - GraceDays}

\* The table after set_overdue() on each selected subscription
SetOverdue(table, S) ==
    [s \in SubIds |-> IF s \in S THEN [table[s] EXCEPT !.status = "overdue"] ELSE table[s]]

\* The table after the status save of suspend() on each selected subscription
SetSuspended(table, S) ==
    [s \in SubIds |-> IF s \in S THEN [table[s] EXCEPT !.status = "suspended"] ELSE table[s]]

\* What handle_overdue_subscriptions(dry_run) returns when it is called on the
\* table: the ids of its two selections (the counts are their sizes)
SweepReturn(table, day, dry) ==
    LET od == SelectOverdue(table, day)
        mid == IF dry THEN table ELSE SetOverdue(table, od)
    IN  [overdue_ids |-> od, suspended_ids |-> SelectSuspended(mid, day)]

\* A variant of the sweep that persists its changes in a dry run too
SweepIgnoringDryRun(dry) ==
    LET od == SelectOverdue(subs, today)
        mid == SetOverdue(subs, od)
        sp == SelectSuspended(mid, today)
    IN  /\ subs' = SetSuspended(mid, sp)
        /\ acct' = [u \in Parents |-> acct[u] \/ \E s \in sp : subs[s].parent = u]
        /\ billing' = Record("sweep", 0, dry, od, sp,
                             LogEach(subs, od, "subscription_overdue")
                             \o LogEach(subs, sp, "subscription_suspended"))
        /\ UNCHANGED <<req, trips, avail, proc, now, today, fleet, search, fcall>>

\* handle_overdue_subscriptions(dry_run): the second selection is evaluated
\* after the first loop has saved
Sweep(dry) ==
    LET od == SelectOverdue(subs, today)
        mid == IF dry THEN subs ELSE SetOverdue(subs, od)
        sp == SelectSuspended(mid, today)
    IN  /\ subs' = IF dry THEN subs ELSE SetSuspended(mid, sp)
        /\ acct' = IF dry THEN acct
                   ELSE [u \in Parents |-> acct[u] \/ \E s \in sp : subs[s].parent = u]
        /\ billing' = Record("sweep", 0, dry, od, sp,
                             IF dry THEN <<>>
                             ELSE LogEach(subs, od, "subscription_overdue")
                                  \o LogEach(subs, sp, "subscription_suspended"))
        /\ UNCHANGED <<req, trips, avail, proc, now, today, fleet, search, fcall>>

\* The first n subscriptions of a selection, in the order they are processed
Processed(S, n) == {SubOrder(S)[i] : i \in 1..n}

\* The statements that process one subscription in a loop of the sweep
SweepStatements == {"status", "account", "notification"}

\* handle_overdue_subscriptions() when a statement raises while the i-th
\* subscription of a loop is processed: the loops have no exception handler,
\* so the task ends there; what was saved before stays (autocommit)
SweepRaises(loop, i, stmt) ==
    LET od == SelectOverdue(subs, today)
        mid == SetOverdue(subs, od)
        sp == SelectSuspended(mid, today)
    IN  /\ IF loop = 1
           THEN /\ i \in 1..Len(SubOrder(od))
                /\ stmt \in {"status", "notification"}
                /\ subs' = SetOverdue(subs, Processed(od, i - 1)
                                            \cup IF stmt = "status" THEN {}
                                                 ELSE {SubOrder(od)[i]})
                /\ acct' = acct
                /\ billing' = Record("sweep_raised", SubOrder(od)[i], FALSE, od, {},
                                     LogEach(subs, Processed(od, i - 1),
                                             "subscription_overdue"))
           ELSE /\ i \in 1..Len(SubOrder(sp))
                /\ subs' = SetSuspended(mid, Processed(sp, i - 1)
                                             \cup IF stmt = "status" THEN {}
                                                  ELSE {SubOrder(sp)[i]})
                /\ acct' = [u \in Parents |->
                               \/ acct[u]
                               \/ \E s \in Processed(sp, i - 1) : subs[s].parent = u
                               \/ stmt = "notification" /\ subs[SubOrder(sp)[i]].parent = u]
                /\ billing' = Record("sweep_raised", SubOrder(sp)[i], FALSE, od, sp,
                                     LogEach(subs, od, "subscription_overdue")
                                     \o LogEach(subs, Processed(sp, i - 1),
                                                "subscription_suspended"))
        /\ UNCHANGED <<req, trips, avail, proc, now, today, fleet, search, fcall>>

\* Subscription.activate: status active, the parent's suspension lifted
Activate(s) ==
    /\ subs' = [subs EXCEPT ![s].status = "active"]
    /\ acct' = [acct EXCEPT ![subs[s].parent] = FALSE]

\* A payment webhook (MobileMoneyWebhookSerializer, StripeWebhookSerializer):
\* the Payment row, process_payment_status on its creation, and on success the
\* due date extended
WebhookPayment(s, ok) ==
    /\ subs[s].status # "none"
    /\ subs[s].due <= MaxDay
    /\ IF ok
       THEN /\ subs' = [subs EXCEPT ![s].status = "active", ![s].haspay = TRUE,
                                    ![s].due = subs[s].due + ExtendDays]
            /\ acct' = [acct EXCEPT ![subs[s].parent] = FALSE]
       ELSE /\ subs' = [subs EXCEPT ![s].status = "overdue", ![s].haspay = TRUE]
            /\ acct' = acct
    /\ billing' = Record(IF ok THEN "payment_success" ELSE "payment_failed", s, FALSE, {}, {},
                         <<Emit("log", subs[s].parent,
                                IF ok THEN "payment_success" ELSE "payment_failed")>>)
    /\ UNCHANGED <<req, trips, avail, proc, now, today, fleet, search, fcall>>

\* PaymentViewSet.mark_paid on a payment of the subscription
MarkPaid(s) ==
    /\ subs[s].haspay
    /\ subs[s].due <= MaxDay
    /\ subs' = [subs EXCEPT ![s].due = subs[s].due + ExtendDays]
    /\ billing' = Record("mark_paid", s, FALSE, {}, {},
                         <<Emit("log", subs[s].parent, "payment_success")>>)
    /\ UNCHANGED <<req, trips, avail, proc, now, today, acct, fleet, search, fcall>>

\* SubscriptionViewSet.activate
ApiActivate(s) ==
    /\ subs[s].status # "none"
    /\ Activate(s)
    /\ billing' = Record("activate", s, FALSE, {}, {}, <<>>)
    /\ UNCHANGED <<req, trips, avail, proc, now, today, fleet, search, fcall>>

\* SubscriptionViewSet.suspend: Subscription.suspend with the parent's account
ApiSuspend(s) ==
    /\ subs[s].status # "none"
    /\ subs' = [subs EXCEPT ![s].status = "suspended"]
    /\ acct' = [acct EXCEPT ![subs[s].parent] = TRUE]
    /\ billing' = Record("suspend", s, FALSE, {}, {}, <<>>)
    /\ UNCHANGED <<req, trips, avail, proc, now, today, fleet, search, fcall>>

\* timezone.now().date() moves to the next day
NextDay ==
    /\ today < MaxDay
    /\ today' = today + 1
    /\ billing' = Record("day", 0, FALSE, {}, {}, <<>>)
    /\ UNCHANGED <<req, trips, avail, proc, now, subs, acct, fleet, search, fcall>>

----------------------------------------------------------------------------
(* Candidate search: the chauffeurs a request is offered to.  The searches  *)
(* are modelled with zone left out (zone=None) and total_ratings equal.     *)

Drivers == 1..NumDrivers

NoFleet == [d \in Drivers |-> NoProfile]

\* The profiles the searches are explored on
Scores == {25, 40, 45}
Distances == {2, 5, 12}
Profiles ==
    {[avail |-> st[1], susp |-> st[2], score |-> sc, pos |-> TRUE, dist |-> km] :
        st \in {<<TRUE, FALSE>>, <<FALSE, FALSE>>, <<TRUE, TRUE>>},
        sc \in Scores, km \in Distances}
    \cup
    {[avail |-> st[1], susp |-> st[2], score |-> sc, pos |-> FALSE, dist |-> 0] :
        st \in {<<TRUE, FALSE>>, <<FALSE, FALSE>>, <<TRUE, TRUE>>}, sc \in Scores}

Priorities == {"closest", "best_rated", "fastest"}

\* The rows of a set of profiles in the order the database yields them
InIdOrder(S) == SelectSeq([i \in Drivers |-> i], LAMBDA d : d \in S)

\* seq[:n]
TakeFirst(seq, n) == SubSeq(seq, 1, IF Len(seq) < n THEN Len(seq) ELSE n)

\* list.sort and sorted: a stable sort by ascending key, key being a function
\* from the elements to integers
StableSort(seq, key) ==
    LET n == Len(seq)
        Before(j, i) == \/ key[seq[j]] < key[seq[i]]
                        \/ key[seq[j]] = key[seq[i]] /\ j < i
        Pos(i) == Cardinality({j \in 1..n : Before(j, i)}) + 1
    IN  [k \in 1..n |-> seq[CHOOSE i \in 1..n : Pos(i) = k]]

\* The key (calculated_distance, -reliability_score) of core/utils.py as one
\* integer: the scores are below 100
CloserThenBetter == [d \in Drivers |-> fleet[d].dist * 100 + (100 - fleet[d].score)]

\* The key -reliability_score
BetterRated == [d \in Drivers |-> 0 - fleet[d].score]

\* get_estimated_arrival_time, in minutes
EtaMinutes(d) ==
    LET minutes == (fleet[d].dist * 60) \div AverageSpeedKmh
    IN  IF minutes < MinEtaMinutes THEN MinEtaMinutes ELSE minutes

\* A variant of the search that does not ask for a known position
FindAvailableChauffeursAnyPosition(coords, maxKm, minScore) ==
    LET base == {d \in Drivers : /\ fleet[d].avail /\ ~fleet[d].susp
                                 /\ fleet[d].score >= minScore}
    IN  IF coords
        THEN StableSort(InIdOrder({d \in base : fleet[d].dist <= maxKm}), CloserThenBetter)
        ELSE StableSort(InIdOrder(base), BetterRated)

\* core/utils.py find_available_chauffeurs
FindAvailableChauffeurs(coords, maxKm, minScore) ==
    LET base == {d \in Drivers : /\ fleet[d].avail /\ ~fleet[d].susp
                                 /\ fleet[d].score >= minScore}
    IN  IF coords
        THEN StableSort(InIdOrder({d \in base : fleet[d].pos /\ fleet[d].dist <= maxKm}),
                        CloserThenBetter)
        ELSE StableSort(InIdOrder(base), BetterRated)

\* subscriptions/utils.py find_available_chauffeurs: with coordinates the
\* search of core/utils.py at its default minimum score, without them the
\* available chauffeurs that are not suspended, best rated first
UtilsFindAvailableChauffeurs(coords, maxKm) ==
    IF coords
    THEN FindAvailableChauffeurs(TRUE, maxKm, DefaultMinRating)
    ELSE StableSort(InIdOrder({d \in Drivers : fleet[d].avail /\ ~fleet[d].susp}),
                    BetterRated)

\* The fallback query of views_advanced.py without coordinates
FallbackChauffeurs(minScore) ==
    TakeFirst(InIdOrder({d \in Drivers : fleet[d].avail /\ fleet[d].score >= minScore}),
              CandidateLimit)

\* AdvancedRideRequestCreateView._find_eligible_chauffeurs (0: nobody suggested)
FindEligibleChauffeurs(coords, maxKm, minScore, suggested) ==
    IF suggested # 0 /\ fleet[suggested].avail
    THEN <<suggested>>
         \o (IF coords
             THEN SelectSeq(TakeFirst(FindAvailableChauffeurs(TRUE, maxKm, minScore),
                                      CandidateLimit - 1),
                            LAMBDA d : d # suggested)
             ELSE <<>>)
    ELSE IF coords
    THEN TakeFirst(FindAvailableChauffeurs(TRUE, maxKm, minScore), CandidateLimit)
    ELSE FallbackChauffeurs(minScore)

\* RideRequestWaitingView._get_eligible_chauffeurs_with_details: with
\* coordinates, line 639 calls total_seconds() on the int that
\* get_estimated_arrival_time returns, which raises for the first chauffeur
\* found; without them no chauffeur has a distance or an ETA, and only
\* best_rated reorders the list
GetEligibleChauffeursWithDetails(coords, maxKm, minScore, priority) ==
    IF coords
    THEN [raised |-> FindAvailableChauffeurs(TRUE, maxKm, minScore) # <<>>, list |-> <<>>]
    ELSE [raised |-> FALSE,
          list |-> TakeFirst(IF priority = "best_rated"
                             THEN StableSort(FallbackChauffeurs(minScore), BetterRated)
                             ELSE FallbackChauffeurs(minScore),
                             CandidateLimit)]

\* One candidate search is called and returns
Searched(op, coords, priority, suggested, result, raised) ==
    /\ search' = [op |-> op, coords |-> coords, priority |-> priority,
                  suggested |-> suggested, result |-> result, raised |-> raised]
    /\ UNCHANGED <<req, trips, avail, proc, now, subs, acct, today, billing, fleet, fcall>>

\* The searches only read, so each fleet is explored with one call
SearchCore(coords) ==
    /\ search.op = "none"
    /\ Searched("core_find", coords, "none", 0,
                FindAvailableChauffeurs(coords, DefaultMaxDistanceKm, DefaultMinRating),
                FALSE)

SearchUtils(coords) ==
    /\ search.op = "none"
    /\ Searched("utils_find", coords, "none", 0,
                UtilsFindAvailableChauffeurs(coords, DefaultMaxDistanceKm), FALSE)

SearchEligible(coords, priority, suggested) ==
    /\ search.op = "none"
    /\ Searched("find_eligible", coords, priority, suggested,
                FindEligibleChauffeurs(coords, DefaultMaxDistanceKm, DefaultMinRating,
                                       suggested),
                FALSE)

SearchWaiting(coords, priority) ==
    /\ search.op = "none"
    /\ LET r == GetEligibleChauffeursWithDetails(coords, DefaultMaxDistanceKm,
                                                 DefaultMinRating, priority)
       IN  Searched("waiting_list", coords, priority, 0, r.list, r.raised)

----------------------------------------------------------------------------
(* The same handlers when notification_service.send_notification raises     *)

\* _notify_trip_user when the service raises: the NotificationLog row is
\* created, the exception of the service is caught and dropped
NotifyTripUserRaises(u, type) == <<Emit("log", u, type), Emit("raised", u, type)>>

\* start_trip from mark_in_progress() on, the service raising in
\* _notify_trip_user
StartTripSaveRaises(p) ==
    /\ proc[p].pc = "st_save"
    /\ LET local == MarkInProgress(proc[p].ltrip) IN
       /\ trips' = [trips EXCEPT ![proc[p].tid] = SaveInProgress(trips[proc[p].tid], local)]
       /\ proc' = [proc EXCEPT ![p] =
              Respond(p, "ok", <<Emit("update", NoUser, "started")>>
                               \o NotifyTripUserRaises(local.parent, "trip_update"))]
    /\ UNCHANGED <<req, avail, now, subs, acct, today, billing, fleet, search, fcall>>

\* update_trip_status from mark_in_progress() or mark_completed() on, the
\* service raising at line 449: nothing catches the exception, the saves
\* before it stay and the caller gets a server error
UpdateStatusSaveRaises(p) ==
    /\ proc[p].pc = "up_save"
    /\ LET local == IF proc[p].op = "update_started"
                    THEN MarkInProgress(proc[p].ltrip)
                    ELSE MarkCompleted(proc[p].ltrip)
           saved == IF proc[p].op = "update_started"
                    THEN SaveInProgress(trips[proc[p].tid], local)
                    ELSE SaveCompleted(trips[proc[p].tid], local) IN
       /\ trips' = [trips EXCEPT ![proc[p].tid] = saved]
       /\ proc' = [proc EXCEPT ![p] =
              Respond(p, "http500", <<Emit("raised", local.parent, "trip_update")>>)]
    /\ UNCHANGED <<req, avail, now, subs, acct, today, billing, fleet, search, fcall>>

\* confirm_trip_completion from _finalize_trip_completion on, the service
\* raising in every _notify_trip_user
ConfirmFinalizeRaises(p) ==
    /\ proc[p].pc = "cf_final"
    /\ LET l == proc[p].ltrip
           just == JustCompleted(l)
           local == IF just THEN MarkCompleted(l) ELSE l
           counterpart == IF proc[p].user = l.chauffeur THEN l.parent ELSE l.chauffeur
           closing == IF just
                      THEN <<Emit("update", NoUser, "completed")>>
                           \o NotifyTripUserRaises(l.parent, "trip_confirmation")
                           \o NotifyTripUserRaises(l.chauffeur, "trip_confirmation")
                      ELSE <<>> IN
       /\ trips' = IF just
                   THEN [trips EXCEPT ![proc[p].tid] = SaveCompleted(trips[proc[p].tid], local)]
                   ELSE trips
       /\ proc' = [proc EXCEPT ![p] =
              Respond(p, "ok",
                      closing
                      \o <<Emit("update", NoUser,
                                IF just THEN "completed" ELSE "destination_reached")>>
                      \o NotifyTripUserRaises(counterpart, "trip_confirmation"))]
    /\ UNCHANGED <<req, avail, now, subs, acct, today, billing, fleet, search, fcall>>

\* accept_ride_request_advanced from line 322 on, the service raising at line
\* 331: the handler's except clause answers 500 with success false, after the
\* request and the trip were saved
AdvAcceptFinishRaises(p) ==
    /\ proc[p].pc = "adv_finish"
    /\ proc' = [proc EXCEPT ![p] = Return(p, "http500",
                   <<Emit("checkpoint", NoUser, "en_route"),
                     Emit("raised", proc[p].lreq.parent, "trip_accepted")>>)]
    /\ UNCHANGED <<req, trips, avail, now, subs, acct, today, billing, fleet, search, fcall>>

----------------------------------------------------------------------------
(* core/utils.py: distance and estimated arrival, in fixed point *)

\* Coordinates on a grid of 30 degrees: <<latitude, longitude>>
GridPoints == {-60, -30, 0, 30, 60} \X {-150, -60, 0, 30, 120}

\* math.sin(x/2)**2 for x a multiple of 30 degrees, in 1/10000
SinHalfSquared(x) ==
    LET table == <<0, 670, 2500, 5000, 7500, 9330, 10000, 9330, 7500, 5000, 2500, 670>>
    IN  table[((x % 360) \div 30) + 1]

\* math.cos(x) for a latitude of the grid, in 1/10000
Cosine(x) == CASE x = 0 -> 10000
               [] x \in {-30, 30} -> 8660
               [] x \in {-60, 60} -> 5000

\* 2 * atan2(sqrt(a), sqrt(1-a)), the angle whose half-versine is a, in
\* degrees and rounded down to a multiple of 15
CentralAngle(a) ==
    LET table == <<0, 170, 670, 1464, 2500, 3706, 5000, 6294, 7500, 8536, 9330, 9830, 10000>>
        k == CHOOSE i \in 1..13 : table[i] <= a /\ (i = 13 \/ table[i + 1] > a)
    IN  (k - 1) * 15

\* A variant of the distance that takes the cosine of the first latitude twice
CalculateDistanceOneLatitude(p1, p2) ==
    LET dlat == p2[1] - p1[1]
        dlon == p2[2] - p1[2]
        a == SinHalfSquared(dlat)
             + (((Cosine(p1[1]) * Cosine(p1[1])) \div 10000) * SinHalfSquared(dlon)) \div 10000
    IN  (EarthRadiusKm * CentralAngle(a) * 1745) \div 10000

\* calculate_distance, in tenths of a km: the haversine formula, with a
\* degree taken as 0.01745 radian
CalculateDistance(p1, p2) ==
    LET dlat == p2[1] - p1[1]
        dlon == p2[2] - p1[2]
        a == SinHalfSquared(dlat)
             + (((Cosine(p1[1]) * Cosine(p2[1])) \div 10000) * SinHalfSquared(dlon)) \div 10000
    IN  (EarthRadiusKm * CentralAngle(a) * 1745) \div 10000

\* A variant of the estimate without the minimum of 2 minutes
GetEstimatedArrivalTimeNoMinimum(dist, speed) == (dist * 60) \div (speed * 10)

\* get_estimated_arrival_time after its call of calculate_distance: the
\* distance in tenths of a km, int() of the minutes, at least 2
GetEstimatedArrivalTime(dist, speed) ==
    LET minutes == (dist * 60) \div (speed * 10)
    IN  IF minutes < MinEtaMinutes THEN MinEtaMinutes ELSE minutes

\* The average speeds of a call, in km/h
Speeds == {15, AverageSpeedKmh, 60}

\* A call of calculate_distance
Distance(p1, p2) ==
    /\ fcall' = [op |-> "distance", args |-> <<p1, p2>>, result |-> CalculateDistance(p1, p2)]
    /\ UNCHANGED <<req, trips, avail, proc, now, subs, acct, today, billing, fleet, search>>

\* A call of get_estimated_arrival_time between two points dist apart
EstimateArrival(dist, speed) ==
    /\ fcall' = [op |-> "eta", args |-> <<dist, speed>>,
                 result |-> GetEstimatedArrivalTime(dist, speed)]
    /\ UNCHANGED <<req, trips, avail, proc, now, subs, acct, today, billing, fleet, search>>

----------------------------------------------------------------------------
(* Recording a checkpoint on a trip *)

\* Checkpoint.TYPES, and no type posted
CheckpointTypes == {"arrived", "issue", "none"}

\* subscriptions/views.py create_checkpoint: 404, then 403 for anyone but the
\* trip's chauffeur, then 400 without a type; Checkpoint.objects.create is
\* then called with completed_at, which is not a field of Checkpoint, so it
\* raises TypeError and the handler's except turns that into a 500: no row
CreateCheckpoint(p, u, t, type) ==
    /\ proc[p].pc = "idle"
    /\ proc' = [proc EXCEPT ![p] =
          LET call == [IdleProc EXCEPT !.op = "create_checkpoint", !.user = u, !.tid = t,
                                       !.pc = "done"] IN
          IF ~TripFound(t) THEN [call EXCEPT !.res = "http500"]
          ELSE IF u # trips[t].chauffeur THEN [call EXCEPT !.res = "http403"]
          ELSE IF type = "none" THEN [call EXCEPT !.res = "http400"]
          ELSE [call EXCEPT !.res = "http500"]]
    /\ UNCHANGED <<req, trips, avail, now, subs, acct, today, billing, fleet, search, fcall>>

\* TripViewSet.checkpoints: get_object reads through get_queryset, which
\* keeps the trips of a parent (parent=user) or of a chauffeur
\* (chauffeur=user); the serializer wants a type of Checkpoint.TYPES; the
\* row is then inserted and the trip's parent gets a trip_update log
ApiCheckpoints(p, u, t, type) ==
    /\ proc[p].pc = "idle"
    /\ proc' = [proc EXCEPT ![p] =
          LET call == [IdleProc EXCEPT !.op = "api_checkpoints", !.user = u, !.tid = t,
                                       !.pc = "done"]
              visible == /\ TripFound(t)
                         /\ u \in Parents => trips[t].parent = u
                         /\ u \in Chauffeurs => trips[t].chauffeur = u IN
          IF ~visible THEN [call EXCEPT !.res = "http404"]
          ELSE IF type = "none" THEN [call EXCEPT !.res = "http400"]
          ELSE [call EXCEPT !.res = "http201",
                            !.out = <<Emit("checkpoint", NoUser, type),
                                      Emit("log", trips[t].parent, "trip_update")>>]]
    /\ UNCHANGED <<req, trips, avail, now, subs, acct, today, billing, fleet, search, fcall>>

----------------------------------------------------------------------------
(* The handler is over: its response has been sent *)

Finish(p) ==
    /\ proc[p].pc = "done"
    /\ proc' = [proc EXCEPT ![p] = IdleProc]
    /\ UNCHANGED <<req, trips, avail, now, subs, acct, today, billing, fleet, search, fcall>>

----------------------------------------------------------------------------
(* Specification of the ride-request machine *)

InitRide ==
    /\ req = [r \in ReqIds |-> NoReq]
    /\ trips = [t \in TripIds |-> NoTrip]
    /\ avail = [c \in Chauffeurs |-> TRUE]
    /\ proc = [p \in Procs |-> IdleProc]
    /\ now = 1
    /\ subs = [s \in 1..NumSubs |-> NoSub]
    /\ acct = [u \in Parents |-> FALSE]
    /\ today = 0
    /\ billing = NoBilling
    /\ fleet = NoFleet
    /\ search = NoSearch
    /\ fcall = NoCall

\* The users who submit the creation forms: the requester and a chauffeur
Creators == {"p1", "c1"}

NextRide ==
    \E p \in Procs :
        \/ \E u \in Creators : CreateSimple(p, u)
        \/ \E u \in Creators, coords \in BOOLEAN, s \in Chauffeurs \cup {NoUser} :
               CreateAdvanced(p, u, coords, s)
        \/ \E u \in Users, r \in ReqIds : AdvAcceptLoad(p, u, r)
        \/ AdvAcceptSave1(p)
        \/ AdvAcceptTrip(p)
        \/ AdvAcceptSave2(p)
        \/ AdvAcceptFinish(p)
        \/ \E u \in Users, r \in ReqIds, a \in {"accept", "decline"} : ActionLoad(p, u, r, a)
        \/ \E u \in Users, r \in ReqIds : ApiAcceptLoad(p, u, r)
        \/ ModelAcceptTrip(p)
        \/ ModelAcceptSave(p)
        \/ ModelAcceptAvail(p)
        \/ ModelAcceptMark(p)
        \/ ModelDeclineSave(p)
        \/ \E u \in Users, r \in ReqIds : ApiDeclineLoad(p, u, r)
        \/ \E u \in Users, r \in ReqIds : AdvDecline(p, u, r)
        \/ \E u \in Users, r \in ReqIds : ApiCancelLoad(p, u, r)
        \/ ModelCancel(p)
        \/ \E u \in Users, r \in ReqIds : AdvCancelLoad(p, u, r)
        \/ AdvCancelSave(p)
        \/ \E u \in Users, b \in BOOLEAN : ToggleAvailability(p, u, b)
        \/ Finish(p)

SpecRide == InitRide /\ [][NextRide]_vars

----------------------------------------------------------------------------
(* Specification of acceptance alone: one pending request, as either        *)
(* creation view leaves it, and the chauffeurs' accept calls                *)

InitAccept ==
    /\ \E row \in {[exists |-> TRUE, parent |-> "p1", chauffeur |-> NoUser,
                    status |-> "pending", trip |-> 0, coords |-> TRUE],
                   [exists |-> TRUE, parent |-> "p1", chauffeur |-> NoUser,
                    status |-> "pending", trip |-> 0, coords |-> FALSE],
                   [exists |-> TRUE, parent |-> "p1", chauffeur |-> "c1",
                    status |-> "pending", trip |-> 0, coords |-> FALSE]} :
           req = [r \in ReqIds |-> IF r = 1 THEN row ELSE NoReq]
    /\ trips = [t \in TripIds |-> NoTrip]
    /\ avail = [c \in Chauffeurs |-> TRUE]
    /\ proc = [p \in Procs |-> IdleProc]
    /\ now = 1
    /\ subs = [s \in 1..NumSubs |-> NoSub]
    /\ acct = [u \in Parents |-> FALSE]
    /\ today = 0
    /\ billing = NoBilling
    /\ fleet = NoFleet
    /\ search = NoSearch
    /\ fcall = NoCall

NextAccept ==
    \E p \in Procs :
        \/ \E u \in Users, r \in ReqIds : AdvAcceptLoad(p, u, r)
        \/ AdvAcceptSave1(p)
        \/ AdvAcceptTrip(p)
        \/ AdvAcceptSave2(p)
        \/ AdvAcceptFinish(p)
        \/ \E u \in Users, r \in ReqIds : ActionLoad(p, u, r, "accept")
        \/ \E u \in Users, r \in ReqIds : ApiAcceptLoad(p, u, r)
        \/ ModelAcceptTrip(p)
        \/ ModelAcceptSave(p)
        \/ ModelAcceptAvail(p)
        \/ ModelAcceptMark(p)
        \/ \E u \in Users, b \in BOOLEAN : ToggleAvailability(p, u, b)
        \/ Finish(p)

SpecAccept == InitAccept /\ [][NextAccept]_vars

----------------------------------------------------------------------------
(* Specification of the trip lifecycle: one trip, either scheduled or in    *)
(* progress as one of the two accept paths created it with its request      *)

ScheduledTrip == [NoTrip EXCEPT !.exists = TRUE, !.chauffeur = "c1", !.parent = "p1",
                                !.status = "scheduled"]

AcceptedReq == [exists |-> TRUE, parent |-> "p1", chauffeur |-> "c1",
                status |-> "accepted", trip |-> 1, coords |-> TRUE]

\* what accept_ride_request_advanced leaves: started_at empty, chauffeur available
InitAfterAdvAccept ==
    /\ req = [r \in ReqIds |-> IF r = 1 THEN AcceptedReq ELSE NoReq]
    /\ trips = [t \in TripIds |-> IF t = 1 THEN AdvNewTrip(AcceptedReq, "c1") ELSE NoTrip]
    /\ avail = [c \in Chauffeurs |-> TRUE]

\* what RideRequest.accept leaves: started_at set, now or earlier, and the
\* chauffeur unavailable
InitAfterModelAccept ==
    /\ req = [r \in ReqIds |-> IF r = 1 THEN AcceptedReq ELSE NoReq]
    /\ \E s \in 1..now :
           trips = [t \in TripIds |->
                       IF t = 1 THEN [ModelNewTrip(AcceptedReq) EXCEPT !.started_at = s]
                       ELSE NoTrip]
    /\ avail = [c \in Chauffeurs |-> c # "c1"]

InitScheduled ==
    /\ req = [r \in ReqIds |-> NoReq]
    /\ trips = [t \in TripIds |-> IF t = 1 THEN ScheduledTrip ELSE NoTrip]
    /\ avail = [c \in Chauffeurs |-> TRUE]

InitIdle ==
    /\ proc = [p \in Procs |-> IdleProc]
    /\ now \in 1..MaxClock
    /\ subs = [s \in 1..NumSubs |-> NoSub]
    /\ acct = [u \in Parents |-> FALSE]
    /\ today = 0
    /\ billing = NoBilling
    /\ fleet = NoFleet
    /\ search = NoSearch
    /\ fcall = NoCall

InitTrip ==
    /\ InitIdle
    /\ InitScheduled \/ InitAfterAdvAccept \/ InitAfterModelAccept

\* The callers of the trip handlers: the driver, the requester and a third user
TripCallers == {"c1", "p1", "c2"}

\* The clock reading stays what it was at the start over the calls explored
NextTrip ==
    \E p \in Procs :
        \/ \E u \in TripCallers, t \in TripIds : StartTripLoad(p, u, t)
        \/ StartTripSave(p)
        \/ \E u \in TripCallers, t \in TripIds, ut \in UpdateTypes : UpdateStatusLoad(p, u, t, ut)
        \/ UpdateStatusSave(p)
        \/ \E u \in TripCallers, t \in TripIds : ConfirmLoad(p, u, t)
        \/ ConfirmSave(p)
        \/ ConfirmFinalize(p)
        \/ \E u \in TripCallers, t \in TripIds : ArchiveTrip(p, u, t)
        \/ \E u \in TripCallers, t \in TripIds : DeleteTrip(p, u, t)
        \/ Finish(p)

SpecTrip == InitTrip /\ [][NextTrip]_vars

----------------------------------------------------------------------------
(* Specification of starting alone: one trip, the driver's start calls, the *)
(* confirmations and archivings a start clears, and the clock               *)

InitStart ==
    /\ InitIdle /\ now = 1
    /\ InitScheduled \/ InitAfterAdvAccept \/ InitAfterModelAccept

NextStart ==
    \/ Tick
    \/ \E p \in Procs :
        \/ \E u \in TripCallers, t \in TripIds : StartTripLoad(p, u, t)
        \/ StartTripSave(p)
        \/ \E u \in TripCallers, t \in TripIds : ConfirmLoad(p, u, t)
        \/ ConfirmSave(p)
        \/ ConfirmFinalize(p)
        \/ \E u \in TripCallers, t \in TripIds : ArchiveTrip(p, u, t)
        \/ Finish(p)

SpecStart == InitStart /\ [][NextStart]_vars

----------------------------------------------------------------------------
(* Specification of completion alone: one trip in progress and the calls of *)
(* confirm_trip_completion                                                  *)

InitConfirm ==
    /\ InitIdle /\ now = 1
    /\ InitAfterAdvAccept \/ InitAfterModelAccept

NextConfirm ==
    \/ Tick
    \/ \E p \in Procs :
        \/ \E u \in Users, t \in TripIds : ConfirmLoad(p, u, t)
        \/ ConfirmSave(p)
        \/ ConfirmFinalize(p)
        \/ Finish(p)

SpecConfirm == InitConfirm /\ [][NextConfirm]_vars

----------------------------------------------------------------------------
(* Specification of the handlers with a notification service that may       *)
(* raise: one pending request, its advanced acceptance and the life of the  *)
(* trip it creates                                                          *)

\* No call is in flight: the calls are explored one at a time
Quiet == \A q \in Procs : proc[q].pc = "idle"

NextNotifyFault ==
    \E p \in Procs :
        \/ Quiet /\ \E u \in Users, r \in ReqIds : AdvAcceptLoad(p, u, r)
        \/ AdvAcceptSave1(p)
        \/ AdvAcceptTrip(p)
        \/ AdvAcceptSave2(p)
        \/ AdvAcceptFinish(p)
        \/ AdvAcceptFinishRaises(p)
        \/ Quiet /\ \E u \in TripCallers, t \in TripIds : StartTripLoad(p, u, t)
        \/ StartTripSave(p)
        \/ StartTripSaveRaises(p)
        \/ Quiet /\ \E u \in TripCallers, t \in TripIds, ut \in UpdateTypes :
                        UpdateStatusLoad(p, u, t, ut)
        \/ UpdateStatusSave(p)
        \/ UpdateStatusSaveRaises(p)
        \/ Quiet /\ \E u \in TripCallers, t \in TripIds : ConfirmLoad(p, u, t)
        \/ ConfirmSave(p)
        \/ ConfirmFinalize(p)
        \/ ConfirmFinalizeRaises(p)
        \/ Finish(p)

SpecNotifyFault == InitAccept /\ [][NextNotifyFault]_vars

----------------------------------------------------------------------------
(* Specification of billing: two active subscriptions falling due, of one   *)
(* parent or of two                                                         *)

InitBilling ==
    /\ req = [r \in ReqIds |-> NoReq]
    /\ trips = [t \in TripIds |-> NoTrip]
    /\ avail = [c \in Chauffeurs |-> TRUE]
    /\ proc = [p \in Procs |-> IdleProc]
    /\ now = 1
    /\ \E q \in Parents, d \in 1..2 :
           subs = [s \in SubIds |->
                      IF s = 1 THEN [parent |-> "p1", status |-> "active", due |-> 1,
                                     haspay |-> FALSE]
                      ELSE [parent |-> q, status |-> "active", due |-> d,
                            haspay |-> FALSE]]
    /\ acct = [u \in Parents |-> FALSE]
    /\ today = 0
    /\ billing = NoBilling
    /\ fleet = NoFleet
    /\ search = NoSearch
    /\ fcall = NoCall

NextBilling ==
    \/ \E dry \in BOOLEAN : Sweep(dry)
    \/ \E s \in SubIds, ok \in BOOLEAN : WebhookPayment(s, ok)
    \/ \E s \in SubIds : MarkPaid(s)
    \/ \E s \in SubIds : ApiActivate(s)
    \/ \E s \in SubIds : ApiSuspend(s)
    \/ NextDay

SpecBilling == InitBilling /\ [][NextBilling]_vars

----------------------------------------------------------------------------
(* Specification of billing with sweeps in which a statement raises *)

NextSweepFault ==
    \/ NextBilling
    \/ \E loop \in 1..2, i \in SubIds, stmt \in SweepStatements : SweepRaises(loop, i, stmt)

SpecSweepFault == InitBilling /\ [][NextSweepFault]_vars

----------------------------------------------------------------------------
(* SpecLatePayment: the billing events on a subscription long past due *)

\* Subscription 1 is 30, 31 or 36 days past its due date on day 0, in any of
\* the states the sweep or a failed payment can have left it in
InitLatePayment ==
    /\ req = [r \in ReqIds |-> NoReq]
    /\ trips = [t \in TripIds |-> NoTrip]
    /\ avail = [c \in Chauffeurs |-> TRUE]
    /\ proc = [p \in Procs |-> IdleProc]
    /\ now = 1
    /\ \E st \in {"active", "overdue", "suspended"},
          d \in {0 - ExtendDays, 0 - ExtendDays - 1, 0 - ExtendDays - GraceDays - 1} :
           /\ subs = [s \in SubIds |->
                         IF s = 1 THEN [parent |-> "p1", status |-> st, due |-> d,
                                        haspay |-> FALSE]
                         ELSE [parent |-> "p2", status |-> "active", due |-> 1,
                               haspay |-> FALSE]]
           /\ acct = [u \in Parents |-> u = "p1" /\ st = "suspended"]
    /\ today = 0
    /\ billing = NoBilling
    /\ fleet = NoFleet
    /\ search = NoSearch
    /\ fcall = NoCall

SpecLatePayment == InitLatePayment /\ [][NextBilling]_vars


----------------------------------------------------------------------------
(* Specification of the candidate searches on every fleet of profiles *)

InitSearch ==
    /\ req = [r \in ReqIds |-> NoReq]
    /\ trips = [t \in TripIds |-> NoTrip]
    /\ avail = [c \in Chauffeurs |-> TRUE]
    /\ proc = [p \in Procs |-> IdleProc]
    /\ now = 1
    /\ subs = [s \in 1..NumSubs |-> NoSub]
    /\ acct = [u \in Parents |-> FALSE]
    /\ today = 0
    /\ billing = NoBilling
    /\ fleet \in [Drivers -> Profiles]
    /\ search = NoSearch
    /\ fcall = NoCall

NextSearch ==
    \/ \E coords \in BOOLEAN : SearchCore(coords)
    \/ \E coords \in BOOLEAN : SearchUtils(coords)
    \/ \E coords \in BOOLEAN, pr \in Priorities, sg \in Drivers \cup {0} :
           SearchEligible(coords, pr, sg)
    \/ \E coords \in BOOLEAN, pr \in Priorities : SearchWaiting(coords, pr)

SpecSearch == InitSearch /\ [][NextSearch]_vars

----------------------------------------------------------------------------
(* SpecCreate: one creation call, over the posted texts and times *)

InitCreate ==
    /\ req = [i \in ReqIds |-> NoReq]
    /\ trips = [i \in TripIds |-> NoTrip]
    /\ avail \in [Chauffeurs -> BOOLEAN]
    /\ InitIdle

NextCreate ==
    \/ \E p \in FreeSlots, u \in {"p1", "c1"}, pickup \in Locations, dropoff \in Locations,
          lead \in Leads : PostSimple(p, u, pickup, dropoff, lead)
    \/ \E p \in FreeSlots, u \in {"p1", "c1"}, pickup \in Locations, dropoff \in Locations,
          lead \in Leads, coords \in BOOLEAN : PostAdvanced(p, u, pickup, dropoff, lead, coords)
    \/ \E p \in FreeSlots, u \in {"p1", "c1"}, c \in Chauffeurs \cup {NoUser},
          pickup \in Locations, dropoff \in Locations, lead \in Leads :
              ApiCreate(p, u, c, pickup, dropoff, lead)

SpecCreate == InitCreate /\ [][NextCreate]_vars

----------------------------------------------------------------------------
(* SpecCheckpoint: checkpoint calls on one trip *)

NextCheckpoint ==
    \E p \in Procs :
        \/ \E u \in TripCallers, t \in TripIds, type \in CheckpointTypes :
              CreateCheckpoint(p, u, t, type)
        \/ \E u \in TripCallers, t \in TripIds, type \in CheckpointTypes :
              ApiCheckpoints(p, u, t, type)
        \/ Finish(p)

SpecCheckpoint == InitTrip /\ [][NextCheckpoint]_vars

----------------------------------------------------------------------------
(* SpecGeo: calls of the distance and arrival-time functions *)

InitGeo ==
    /\ req = [r \in ReqIds |-> NoReq]
    /\ trips = [t \in TripIds |-> NoTrip]
    /\ avail = [c \in Chauffeurs |-> TRUE]
    /\ InitIdle

NextGeo ==
    \/ \E p1 \in GridPoints, p2 \in GridPoints : Distance(p1, p2)
    \/ \E dist \in 0..MaxDistance, speed \in Speeds : EstimateArrival(dist, speed)

SpecGeo == InitGeo /\ [][NextGeo]_vars




----------------------------------------------------------------------------
(* Claims about the ride-request machine *)

AcceptOps == {"accept_advanced", "api_accept", "action_accept"}

\* The responses that report a failure to the caller
Failed(res) == res \in {"http400", "http400_already_confirmed",
                        "http403", "http404", "http500",
                        "redirect_warning", "refused", "denied", "no_chauffeur"}

\* The handler of slot p went through an acceptance (it created a trip) and
\* has answered
Accepted(p) == proc[p].pc = "done" /\ proc[p].op \in AcceptOps /\ proc[p].tid # 0

\* C1: when two accept calls by two different chauffeurs on the same request
\* have both answered and one of them went through, the other was told of a
\* failure and created nothing, the request is accepted, bound to the winner
\* and linked to the winner's trip, and one trip exists.
C1_OneAcceptWins ==
    \A p, q \in Procs :
        ( /\ p # q
          /\ proc[q].pc = "done" /\ proc[q].op \in AcceptOps
          /\ proc[q].user \in Chauffeurs
          /\ proc[p].rid = proc[q].rid
          /\ proc[p].user # proc[q].user
          /\ Accepted(p) /\ ~Failed(proc[p].res) )
        => ( /\ Failed(proc[q].res)
             /\ proc[q].tid = 0
             /\ req[proc[p].rid].status = "accepted"
             /\ req[proc[p].rid].chauffeur = proc[p].user
             /\ req[proc[p].rid].trip = proc[p].tid
             /\ Cardinality({t \in TripIds : trips[t].exists}) = 1 )

\* C6: every ride request has a chauffeur exactly when it is accepted or
\* completed, and a trip exactly when it is accepted or completed.
C6_ChauffeurAndTripIffAccepted ==
    \A r \in ReqIds :
        req[r].exists =>
            /\ (req[r].chauffeur # NoUser) <=> (req[r].status \in {"accepted", "completed"})
            /\ (req[r].trip # 0) <=> (req[r].status \in {"accepted", "completed"})

C8_AcceptEffects ==
    \A p \in Procs :
        ( /\ Accepted(p)
          /\ ~Failed(proc[p].res)
          /\ \A q \in Procs \ {p} : proc[q].pc = "idle" )
        => ( /\ req[proc[p].rid].status = "accepted"
             /\ req[proc[p].rid].chauffeur = proc[p].user
             /\ req[proc[p].rid].trip = proc[p].tid
             /\ trips[proc[p].tid].status = "in_progress"
             /\ trips[proc[p].tid].started_at # 0
             /\ \E i \in 1..Len(proc[p].out) :
                    proc[p].out[i] = Emit("checkpoint", NoUser, "en_route")
             /\ ~avail[proc[p].user] )

\* C9: whenever a request becomes accepted or changes its bound chauffeur
\* while accepted, the chauffeur bound by that write is eligible at that
\* moment: available, rated at or above the minimum and, when the request has
\* pickup coordinates, within the maximum distance.
C9_OnlyEligibleAccepts ==
    [][\A r \in ReqIds :
          ( /\ req'[r].status = "accepted"
            /\ (req[r].status # "accepted" \/ req'[r].chauffeur # req[r].chauffeur) )
          => Eligible(req'[r].chauffeur, req[r])]_vars

AllowedRequestMoves == {<<"pending", "accepted">>, <<"pending", "declined">>,
                        <<"pending", "cancelled">>, <<"accepted", "completed">>}

\* C10: the status of a ride request only changes along pending -> accepted,
\* pending -> declined, pending -> cancelled and accepted -> completed.
C10_RequestStatusMoves ==
    [][\A r \in ReqIds :
          (req[r].exists /\ req'[r].status # req[r].status)
          => <<req[r].status, req'[r].status>> \in AllowedRequestMoves]_vars

----------------------------------------------------------------------------
(* Claims about the trip lifecycle *)

\* The handler of slot p is a confirm_trip_completion that answered with success
Confirmed(p) == proc[p].pc = "done" /\ proc[p].op = "confirm" /\ proc[p].res = "ok"

\* C2: when the driver's and the requester's confirmations of the same trip
\* in progress have both answered with success, whatever their interleaving,
\* neither timestamp is lost and the trip was finalized: it is completed with
\* both confirmation timestamps set.
C2_ConcurrentConfirmations ==
    \A p, q \in Procs :
        ( /\ p # q
          /\ Confirmed(p) /\ Confirmed(q)
          /\ proc[p].tid = proc[q].tid
          /\ proc[p].user = trips[proc[p].tid].chauffeur
          /\ proc[q].user = trips[proc[q].tid].parent )
        => ( /\ trips[proc[p].tid].cconf # 0
             /\ trips[proc[p].tid].pconf # 0
             /\ trips[proc[p].tid].status = "completed" )

\* C3: a trip is completed only if both the chauffeur's and the requester's
\* confirmation timestamps are set.
C3_CompletedOnlyIfBothConfirmed ==
    \A t \in TripIds :
        trips[t].status = "completed" => (trips[t].cconf # 0 /\ trips[t].pconf # 0)

\* C4: a confirmation called by a party of a trip in progress fails with the
\* already-confirmed error, emitting nothing and leaving the trip unchanged,
\* when that party's timestamp is set; otherwise it goes on, its save sets
\* that party's timestamp and it answers with success.
C4_SecondConfirmationFails ==
    [][\A p \in Procs :
          LET t == proc'[p].tid
              u == proc'[p].user IN
          /\ ( /\ proc[p].pc = "idle" /\ proc'[p].op = "confirm"
               /\ TripFound(t) /\ trips[t].status = "in_progress"
               /\ u \in {trips[t].chauffeur, trips[t].parent} )
             => IF (u = trips[t].chauffeur /\ trips[t].cconf # 0)
                   \/ (u = trips[t].parent /\ trips[t].pconf # 0)
                THEN /\ proc'[p].pc = "done"
                     /\ proc'[p].res = "http400_already_confirmed"
                     /\ proc'[p].out = <<>>
                     /\ trips' = trips
                ELSE proc'[p].pc = "cf_save"
          /\ (proc[p].pc = "cf_save" /\ proc'[p].pc # "cf_save")
             => /\ u = trips[t].chauffeur => trips'[t].cconf # 0
                /\ u = trips[t].parent => trips'[t].pconf # 0
          /\ (proc[p].op = "confirm" /\ proc[p].pc = "cf_final" /\ proc'[p].pc = "done")
             => proc'[p].res = "ok"]_vars

\* A second confirmation by the same party was refused on a trip in progress
C4_Witness ==
    \E p \in Procs :
        /\ proc[p].pc = "done" /\ proc[p].op = "confirm"
        /\ proc[p].res = "http400_already_confirmed"
        /\ trips[proc[p].tid].status = "in_progress"
        /\ \/ proc[p].user = "c1" /\ trips[proc[p].tid].cconf # 0
           \/ proc[p].user = "p1" /\ trips[proc[p].tid].pconf # 0

----------------------------------------------------------------------------
(* Claims about billing *)

\* C5: a sweep that runs right after a sweep that persisted its changes, on
\* the same day and with nothing in between, selects no subscription as
\* overdue and none as suspended, changes no subscription and no account, and
\* creates no notification.
C5_SecondSweepFindsNothing ==
    [][(billing.op = "sweep" /\ ~billing.dry /\ billing'.op = "sweep" /\ today' = today)
       => ( /\ billing'.overdue_ids = {}
            /\ billing'.suspended_ids = {}
            /\ billing'.out = <<>>
            /\ subs' = subs
            /\ acct' = acct )]_vars

\* A second sweep ran after one that marked a subscription overdue and
\* suspended another
C5_Witness ==
    /\ billing.op = "sweep" /\ billing.prev = "sweep"
    /\ \E s \in SubIds : subs[s].status = "overdue"
    /\ \E s \in SubIds : subs[s].status = "suspended"
    /\ \E u \in Parents : acct[u]

----------------------------------------------------------------------------
(* Claims about cancellation and decline *)

CancelOps == {"api_cancel", "cancel_advanced"}

DeclineOps == {"api_decline", "action_decline", "decline_advanced"}

\* C12: a decline called on a request that is not pending changes no request
\* and notifies nobody, and a decline called by a chauffeur other than the one
\* the request is addressed to is refused, changes no request and notifies
\* nobody.
C12_DeclineOnlyByAddressedOnPending ==
    [][\A p \in Procs :
          LET r == proc'[p].rid
              u == proc'[p].user IN
          ( /\ proc[p].pc = "idle"
            /\ proc'[p].op \in DeclineOps
            /\ r \in ReqIds /\ req[r].exists )
          => /\ req[r].status # "pending"
                => (req' = req /\ proc'[p].out = <<>>)
             /\ (u \in Chauffeurs /\ req[r].chauffeur \notin {u, NoUser})
                => ( /\ proc'[p].pc = "done" /\ Failed(proc'[p].res)
                     /\ proc'[p].out = <<>>
                     /\ req' = req )]_vars

----------------------------------------------------------------------------
(* More claims about the trip lifecycle *)

\* C13: a trip has completed_at set exactly when its status is completed.
C13_CompletedAtIffCompleted ==
    \A t \in TripIds :
        trips[t].exists => ((trips[t].completed_at # 0) <=> (trips[t].status = "completed"))

\* The number of rows of kind k and type ty, for the user to, in the rows emitted
CountEmitted(out, k, to, ty) ==
    Cardinality({i \in 1..Len(out) : out[i].k = k /\ out[i].to = to /\ out[i].type = ty})

\* C14: with no other handler in flight and the trip's confirmations as the
\* handler loaded them, the end of the driver's confirmation before the
\* requester's leaves the trip in progress and awaiting the requester, and
\* the end of the requester's confirmation after the driver's leaves the trip
\* completed, with one completed event and one trip_confirmation notification
\* to each party.
C14_StartConfirmConfirm ==
    [][\A p \in Procs :
          LET t == proc[p].tid
              l == proc[p].ltrip
              done == proc'[p].out IN
          ( /\ proc[p].op = "confirm" /\ proc[p].pc = "cf_final" /\ proc'[p].pc = "done"
            /\ \A q \in Procs \ {p} : proc[q].pc = "idle"
            /\ trips[t].cconf = l.cconf /\ trips[t].pconf = l.pconf
            /\ trips[t].status = "in_progress" /\ trips[t].started_at # 0 )
          => /\ (proc[p].user = l.chauffeur /\ l.pconf = 0)
                => AwaitingParentConfirmation(trips'[t])
             /\ (proc[p].user = l.parent /\ l.cconf # 0)
                => ( /\ trips'[t].status = "completed"
                     /\ CountEmitted(done, "update", NoUser, "completed") = 1
                     /\ CountEmitted(done, "notify", l.parent, "trip_confirmation") = 1
                     /\ CountEmitted(done, "notify", l.chauffeur, "trip_confirmation") = 1 )]_vars

\* The handlers that start a trip: start_trip and update_trip_status "started"
StartOps == {"start_trip", "update_started"}

\* C15: a start called by anyone but the trip's driver, or on a trip that is
\* neither scheduled nor in progress, is refused at once and leaves the trip
\* unchanged, on start_trip and on update_trip_status alike.
C15_StartOnlyByDriverWhenStartable ==
    [][\A p \in Procs :
          LET t == proc'[p].tid
              u == proc'[p].user IN
          ( /\ proc[p].pc = "idle"
            /\ proc'[p].op \in StartOps
            /\ TripFound(t)
            /\ (u # trips[t].chauffeur \/ trips[t].status \notin {"scheduled", "in_progress"}) )
          => ( /\ proc'[p].pc = "done"
               /\ Failed(proc'[p].res)
               /\ trips' = trips )]_vars

\* The form a start leaves a trip in
Started(row) ==
    /\ row.status = "in_progress" /\ row.started_at # 0
    /\ row.cconf = 0 /\ row.pconf = 0
    /\ ~row.carch /\ ~row.parch

\* C16: the driver's start_trip on a trip a start has left in progress is
\* accepted, and a start_trip that saves with no other handler in flight what
\* it loaded answers with success, leaves the trip started with the
\* started_at it had if it had one, and so leaves a started trip as it was.
C16_StartIdempotent ==
    [][\A p \in Procs :
          LET t == proc'[p].tid IN
          /\ ( /\ proc[p].pc = "idle" /\ proc'[p].op = "start_trip"
               /\ TripFound(t) /\ proc'[p].user = trips[t].chauffeur
               /\ Started(trips[t]) )
             => proc'[p].pc = "st_save"
          /\ ( /\ proc[p].pc = "st_save" /\ proc'[p].pc = "done"
               /\ \A q \in Procs \ {p} : proc[q].pc \in {"idle", "done"}
               /\ proc[p].ltrip = [trips[t] EXCEPT !.carch = FALSE, !.parch = FALSE] )
             => ( /\ proc'[p].res = "ok"
                  /\ Started(trips'[t])
                  /\ trips[t].started_at # 0 => trips'[t].started_at = trips[t].started_at
                  /\ Started(trips[t]) => trips' = trips )]_vars

\* Two start_trip calls have succeeded on a trip that was started before now
C16_Witness ==
    /\ \A p \in Procs : proc[p].pc = "done" /\ proc[p].op = "start_trip" /\ proc[p].res = "ok"
    /\ Started(trips[1])
    /\ trips[1].started_at < now

ArchiveOps == {"archive_trip", "delete_trip"}

\* C17: an archiving that succeeds for a party of a trip sets that party's
\* archive flag and nothing else of the trip: the other party's flag, the
\* status and both confirmation timestamps stay, and when the flag was set
\* already the trip stays as it was; the trip is archived for no user who is
\* not a party to it, whose archiving is refused.
C17_ArchiveOwnFlagOnly ==
    [][\A p \in Procs :
          LET t == proc'[p].tid
              u == proc'[p].user IN
          ( /\ proc[p].pc = "idle" /\ proc'[p].op \in ArchiveOps
            /\ TripFound(t) )
          => /\ (u = trips[t].chauffeur /\ proc'[p].res = "ok")
                => trips' = [trips EXCEPT ![t].carch = TRUE]
             /\ (u = trips[t].parent /\ proc'[p].res = "ok")
                => trips' = [trips EXCEPT ![t].parch = TRUE]
             /\ u \in {trips[t].chauffeur, trips[t].parent}
                => proc'[p].res \in {"ok", "http400"}
             /\ u \notin {trips[t].chauffeur, trips[t].parent}
                => ( /\ proc'[p].res = "http403" /\ trips' = trips
                     /\ ~IsArchivedFor(trips'[t], u) )
             /\ proc'[p].res # "ok" => trips' = trips]_vars

\* The driver has archived the trip twice; it is archived for the driver and
\* not for the requester
C17_Witness ==
    /\ \A p \in Procs :
          /\ proc[p].pc = "done" /\ proc[p].op = "archive_trip"
          /\ proc[p].user = "c1" /\ proc[p].res = "ok" /\ proc[p].tid = 1
    /\ IsArchivedFor(trips[1], "c1")
    /\ ~IsArchivedFor(trips[1], "p1")

AllowedTripMoves == {<<"scheduled", "in_progress">>, <<"in_progress", "completed">>,
                     <<"in_progress", "cancelled">>, <<"completed", "archived">>,
                     <<"cancelled", "archived">>}

\* C18: the status of a trip only changes along scheduled -> in_progress,
\* in_progress -> completed, in_progress -> cancelled and completed or
\* cancelled -> archived.
C18_TripStatusMoves ==
    [][\A t \in TripIds :
          (trips[t].exists /\ trips'[t].status # trips[t].status)
          => <<trips[t].status, trips'[t].status>> \in AllowedTripMoves]_vars

----------------------------------------------------------------------------
(* Claims about the sweep of overdue subscriptions *)

\* C19: a sweep that persists its changes sets an active subscription whose
\* due date is the day before to overdue and creates one subscription_overdue
\* notification for its parent per subscription of that parent it marked
\* (exactly one when this is the parent's only one); six days later, the
\* subscription still overdue with the same due date (today - 7), a sweep sets
\* it to suspended, suspends the parent's account and creates one
\* subscription_suspended notification for the parent per subscription of
\* that parent it suspended.
C19_OverdueThenSuspended ==
    [][(billing'.op = "sweep" /\ ~billing'.dry)
       => \A s \in SubIds :
             LET u == subs[s].parent IN
             /\ (subs[s].status = "active" /\ subs[s].due = today - 1)
                => /\ subs'[s].status = "overdue"
                   /\ s \in billing'.overdue_ids
                   /\ s \notin billing'.suspended_ids
                   /\ CountEmitted(billing'.out, "log", u, "subscription_overdue")
                      = Cardinality({x \in billing'.overdue_ids : subs[x].parent = u})
             /\ (subs[s].status = "overdue" /\ subs[s].due = today - 7)
                => /\ subs'[s].status = "suspended"
                   /\ acct'[u]
                   /\ s \in billing'.suspended_ids
                   /\ CountEmitted(billing'.out, "log", u, "subscription_suspended")
                      = Cardinality({x \in billing'.suspended_ids : subs[x].parent = u})]_vars

\* Subscription 1, due on day 1 and never paid, was marked overdue by an
\* earlier sweep and is suspended by the sweep of day 8, which creates exactly
\* one subscription_suspended notification, for its parent
C19_Witness ==
    /\ billing.op = "sweep" /\ ~billing.dry /\ today = 8
    /\ billing.suspended_ids = {1} /\ billing.overdue_ids = {}
    /\ subs[1].status = "suspended" /\ subs[1].due = today - 7 /\ ~subs[1].haspay
    /\ acct[subs[1].parent]
    /\ billing.out = <<Emit("log", subs[1].parent, "subscription_suspended")>>

\* C20: a sweep moves a subscription to suspended, and suspends its parent's
\* account, only if the subscription is overdue when the sweep is called and
\* its due date is before today - 5; a subscription whose due date is today - 5
\* or later is not moved to suspended by a sweep, whatever its status.
C20_SuspendedOnlyIfOverduePastGrace ==
    [][billing'.op = "sweep"
       => /\ \A s \in SubIds :
                (subs'[s].status = "suspended" /\ subs[s].status # "suspended")
                => (subs[s].status = "overdue" /\ subs[s].due < today - GraceDays)
          /\ \A u \in Parents :
                (acct'[u] /\ ~acct[u])
                => \E s \in SubIds : /\ subs[s].parent = u
                                     /\ subs[s].status = "overdue"
                                     /\ subs[s].due < today - GraceDays
          /\ \A s \in SubIds :
                subs[s].due >= today - GraceDays
                => (subs'[s].status = "suspended" => subs[s].status = "suspended")]_vars

\* C21: a dry-run sweep leaves every subscription's status, every parent's
\* account suspension and the notifications unchanged (it creates none).
C21_DryRunChangesNothing ==
    [][(billing'.op = "sweep" /\ billing'.dry)
       => /\ \A s \in SubIds : subs'[s].status = subs[s].status
          /\ acct' = acct
          /\ billing'.out = <<>>]_vars

\* A dry run has just selected a subscription as overdue and another for
\* suspension, and both still have the status they had
C21_Witness ==
    /\ billing.op = "sweep" /\ billing.dry
    /\ \E s \in billing.overdue_ids : subs[s].status = "active"
    /\ \E s \in billing.suspended_ids : subs[s].status = "overdue" /\ ~acct[subs[s].parent]

ReturnOf(b) == [overdue_ids |-> b.overdue_ids, suspended_ids |-> b.suspended_ids]

\* C22: whether or not it persists its changes, a sweep returns the overdue
\* ids and suspended ids (hence the counts) that a dry run returns from the
\* state it is called in.
C22_DryRunReturnsWhatCommitReturns ==
    [][billing'.op = "sweep" => ReturnOf(billing') = SweepReturn(subs, today, TRUE)]_vars

StatusRank(st) == CASE st = "active" -> 0 [] st = "overdue" -> 1 [] st = "suspended" -> 2
                    [] OTHER -> 3

\* C23: a subscription's status never moves backwards in the order active,
\* overdue, suspended, except through activate(), which resets it to active
\* (the activate call of the API and the one a successful payment makes).
C23_StatusMonotonic ==
    [][\A s \in SubIds :
          StatusRank(subs'[s].status) < StatusRank(subs[s].status)
          => (subs'[s].status = "active" /\ billing'.op \in {"activate", "payment_success"})]_vars

\* C24: after a payment succeeded for a subscription (webhook or manual
\* confirmation by the admin), its due date is 30 days later, it is active
\* and its parent's account is not suspended; after a payment failed, it is
\* overdue and one payment_failed notification went to the parent.
C24_PaymentResult ==
    [][\A s \in SubIds :
          /\ (billing'.op \in {"payment_success", "mark_paid"} /\ billing'.sub = s)
             => /\ subs'[s].due = subs[s].due + ExtendDays
                /\ subs'[s].status = "active"
                /\ ~acct'[subs[s].parent]
          /\ (billing'.op = "payment_failed" /\ billing'.sub = s)
             => /\ subs'[s].status = "overdue"
                /\ billing'.out = <<Emit("log", subs[s].parent, "payment_failed")>>]_vars

\* C25: activate(s) sets s to active; it lifts the suspension of the parent's
\* account unless another subscription of the same parent is still
\* suspended, in which case the account remains suspended.
C25_ActivateLiftsOnlyOwnSuspension ==
    [][\A s \in SubIds :
          (billing'.op \in {"activate", "payment_success"} /\ billing'.sub = s)
          => LET u == subs[s].parent
                 other == \E x \in SubIds \ {s} :
                             subs'[x].parent = u /\ subs'[x].status = "suspended"
             IN  /\ subs'[s].status = "active"
                 /\ acct'[u] = (acct[u] /\ other)]_vars

\* C26: when a statement raises while a sweep processes one subscription, every
\* other subscription that met the overdue predicate (active, due before
\* today) ends the sweep overdue or suspended, and every other one that met
\* the suspension predicate (overdue, due before today - 5) ends it suspended.
C26_SweepIsolatesFailures ==
    [][billing'.op = "sweep_raised"
       => \A s \in SubIds \ {billing'.sub} :
             /\ (subs[s].status = "active" /\ subs[s].due < today)
                => subs'[s].status \in {"overdue", "suspended"}
             /\ (subs[s].status = "overdue" /\ subs[s].due < today - GraceDays)
                => subs'[s].status = "suspended"]_vars

----------------------------------------------------------------------------
(* Claims about failures of the notification service *)

\* The notification service raised in the call that slot p has just answered
Raised(p) == \E i \in 1..Len(proc[p].out) : proc[p].out[i].k = "raised"

\* C27: when the notification service raises in an accept, a start, a status
\* update or a confirmation, the caller still gets the success result and
\* the transition the call performed is in the database.
C27_NotifyFailureSwallowed ==
    \A p \in Procs :
        (proc[p].pc = "done" /\ Raised(p))
        => /\ proc[p].res = "ok"
           /\ proc[p].op = "accept_advanced"
              => req[proc[p].rid].status # "pending" /\ trips[proc[p].tid].exists
           /\ proc[p].op \in {"start_trip", "update_started", "update_completed", "confirm"}
              => trips[proc[p].tid].exists

----------------------------------------------------------------------------
(* Claims about the candidate searches *)

\* The policy of eligibility: available, not suspended, rated at or above the
\* minimum
EligibleDriver(d) ==
    fleet[d].avail /\ ~fleet[d].susp /\ fleet[d].score >= DefaultMinRating

InResult(d) == \E i \in 1..Len(search.result) : search.result[i] = d

\* C28: every chauffeur a candidate search returns is available, not
\* suspended and rated at or above the minimum rating.
C28_OnlyEligibleReturned ==
    (search.op # "none" /\ ~search.raised)
    => \A i \in 1..Len(search.result) : EligibleDriver(search.result[i])

Ahead(a, b, priority) ==
    LET KeyLess == CASE priority = "closest" -> fleet[a].dist < fleet[b].dist
                     [] priority = "best_rated" -> fleet[a].score > fleet[b].score
                     [] priority = "fastest" -> EtaMinutes(a) < EtaMinutes(b)
                     [] OTHER -> FALSE
        KeyMore == CASE priority = "closest" -> fleet[b].dist < fleet[a].dist
                     [] priority = "best_rated" -> fleet[b].score > fleet[a].score
                     [] priority = "fastest" -> EtaMinutes(b) < EtaMinutes(a)
                     [] OTHER -> FALSE
    IN  \/ KeyLess
        \/ ~KeyMore /\ fleet[a].score > fleet[b].score
        \/ ~KeyMore /\ fleet[a].score = fleet[b].score /\ a < b

\* C30: for a request with pickup coordinates, the candidate list (the one
\* built when the request is created with nobody suggested, and the one of
\* the waiting page) is returned ordered by the request's priority key, ties
\* broken by the better score and then by the input order.
C30_RankedByPriority ==
    ( /\ search.op \in {"find_eligible", "waiting_list"}
      /\ search.coords /\ search.suggested = 0 )
    => /\ ~search.raised
       /\ \A i, j \in 1..Len(search.result) :
             i < j => ~Ahead(search.result[j], search.result[i], search.priority)

\* The creation calls, and the rules the design sets on their input
CreateOps == {"post_simple", "post_advanced", "api_create"}
LeadInWindow(lead) == lead >= MinLeadMinutes /\ lead <= MaxLeadMinutes
SamePlace(pickup, dropoff) == Lower(Strip(pickup)) = Lower(Strip(dropoff))
Inserted == \E i \in ReqIds : req[i].exists

\* C31: a creation call by a requester whose pickup equals its dropoff after
\* normalization, or whose requested time is less than 10 minutes or more than
\* 7 days ahead, fails with a validation error and inserts nothing, and no row
\* is inserted from such input; a call with two different non-blank places and
\* a requested time of exactly now + 10 minutes or exactly now + 7 days is
\* accepted by the form paths when a chauffeur can be addressed.
C31_CreateValidates ==
    (fcall.op \in CreateOps /\ fcall.args[1] \in Parents) =>
        LET pickup == fcall.args[2]
            dropoff == fcall.args[3]
            lead == fcall.args[4]
            refused == SamePlace(pickup, dropoff) \/ ~LeadInWindow(lead) IN
        /\ refused => (fcall.result = "invalid" /\ ~Inserted)
        /\ ( /\ fcall.op \in {"post_simple", "post_advanced"}
             /\ ~refused
             /\ Strip(pickup) # <<>> /\ Strip(dropoff) # <<>>
             /\ lead \in {MinLeadMinutes, MaxLeadMinutes}
             /\ fcall.result # "no_chauffeur" )
           => (fcall.result = "created" /\ Inserted)

\* C32: on every checkpoint-recording path, a checkpoint is appended only when
\* the caller is the trip's assigned driver; a call by the requester or any
\* other user is rejected and appends nothing.
C32_CheckpointByDriverOnly ==
    \A p \in Procs :
        (proc[p].op \in {"create_checkpoint", "api_checkpoints"} /\ proc[p].pc = "done"
         /\ ~(TripFound(proc[p].tid) /\ proc[p].user = trips[proc[p].tid].chauffeur))
        => /\ proc[p].res \notin {"http200", "http201"}
           /\ \A i \in 1..Len(proc[p].out) : proc[p].out[i].k # "checkpoint"

\* C33: the estimated arrival time is always at least 2 minutes and, for a
\* fixed average speed, a call with a distance at least as long as the one
\* before returns at least as many minutes.
C33_EtaFloorAndMonotone ==
    [][ fcall'.op = "eta" =>
          /\ fcall'.result >= 2
          /\ (fcall.op = "eta" /\ fcall.args[2] = fcall'.args[2]
              /\ fcall.args[1] <= fcall'.args[1]) => fcall.result <= fcall'.result ]_vars

\* A call whose distance gives more than 2 minutes has returned
C33_Witness == fcall.op = "eta" /\ fcall.result > 2

\* The minutes before truncation are a whole number
WholeMinutes(dist, speed) == (dist * 60) % (speed * 10) = 0

\* C34: for every distance and positive average speed the estimated arrival
\* time equals max(2, ceil(distanceKm / avgSpeedKmh * 60)).
C34_EtaIsCeiling ==
    fcall.op = "eta" =>
        LET dist == fcall.args[1]
            speed == fcall.args[2]
            floor == (dist * 60) \div (speed * 10)
            ceil == IF WholeMinutes(dist, speed) THEN floor ELSE floor + 1
        IN  fcall.result = (IF ceil < 2 THEN 2 ELSE ceil)

\* C35: the distance of a to b is the distance of b to a, and the distance of
\* a point to itself is 0.
C35_DistanceSymmetricZeroOnSelf ==
    fcall.op = "distance" =>
        /\ fcall.result = CalculateDistance(fcall.args[2], fcall.args[1])
        /\ fcall.args[1] = fcall.args[2] => fcall.result = 0

\* Distances of two points at different latitudes and longitudes, and of a
\* point to itself, have been computed
C35_Witness ==
    /\ fcall.op = "distance"
    /\ fcall.args[1][1] # fcall.args[2][1]
    /\ fcall.args[1][2] # fcall.args[2][2]
    /\ fcall.result > 0

\* The step closes trip t: its status becomes completed
Closes(t) == trips[t].exists /\ trips[t].status # "completed" /\ trips'[t].status = "completed"

\* C36: when a trip is finalized to completed, the assigned chauffeur's
\* availability flag is true again after the step.
C36_CloseReleasesChauffeur ==
    [][\A t \in TripIds : Closes(t) => avail'[trips[t].chauffeur]]_vars

\* C37: when the trip spawned by an accepted request is finalized to
\* completed, the request's own status becomes completed.
C37_CloseCompletesRequest ==
    [][\A t \in TripIds, r \in ReqIds :
          (Closes(t) /\ req[r].exists /\ req[r].trip = t /\ req[r].status = "accepted")
          => req'[r].status = "completed"]_vars

\* C38: when a cancel and an accept of the same pending request run together,
\* exactly one takes effect: once the handlers are over, a cancelled request
\* has no trip and no trip is in progress.
C38_CancelOrAcceptNotBoth ==
    (\A p \in Procs : proc[p].pc \in {"idle", "done"}) =>
        \A r \in ReqIds :
            (req[r].exists /\ req[r].status = "cancelled") =>
                /\ req[r].trip = 0
                /\ \A t \in TripIds : trips[t].exists => trips[t].status # "in_progress"

\* C39: no chauffeur is the driver of two trips spawned by accepts that are
\* in progress at the same time.
C39_OneTripInProgressPerChauffeur ==
    \A t1, t2 \in TripIds :
        ( /\ t1 # t2
          /\ trips[t1].exists /\ trips[t2].exists
          /\ trips[t1].status = "in_progress" /\ trips[t2].status = "in_progress" )
        => trips[t1].chauffeur # trips[t2].chauffeur

\* C40: after a successful payment has been processed for a subscription, a
\* sweep run on that same day selects it neither as overdue nor as suspended.
C40_PaidNotSweptSameDay ==
    billing.op = "payment_success" =>
        LET swept == SweepReturn(subs, today, FALSE)
        IN  billing.sub \notin swept.overdue_ids \cup swept.suspended_ids

============================================================================
